---- MODULE Spec2Model ----
(***************************************************************************)
(* offmyport: the platform abstraction layer (port discovery, batch        *)
(* metadata, process termination) of the Unix and the Windows adapter, and *)
(* the command-line program built on it (port filter, JSON output, kill    *)
(* mode, interactive mode).                                                *)
(*                                                                         *)
(* Text handled by the parsers is a sequence of one-character strings, so  *)
(* that split, trim, parseInt and the regular expressions are computed     *)
(* character by character as the JavaScript code computes them.  JSON      *)
(* documents are represented by the value JSON.parse yields for them.      *)
(***************************************************************************)
EXTENDS Integers, Sequences, FiniteSets, TLC

VARIABLES
  op,       \* the adapter operation that is running or has run ("none" before the call)
  args,     \* the arguments the operation was called with
  pc,       \* position inside the operation
  calls,    \* external invocations made so far, in order, each with the reply it got
  errors,   \* lines written with console.error, in order
  result,   \* how the operation ended: return value, thrown error or process exit
  locals,   \* local variables of the command-line program's main and handleKillMode
  printed   \* lines written with console.log, in order

vars == <<op, args, pc, calls, errors, result, locals, printed>>

(***************************************************************************)
(* Bounds                                                                  *)
(***************************************************************************)
MaxLsofLines == 2   \* data lines of an lsof output
MaxSsLines == 2     \* data lines of an ss output
MaxPid == 3         \* process ids 1..MaxPid of the kill and batch operations
MaxPidList == 2     \* length of the pid list given to getProcessMetadataBatch
MaxItems == 2       \* records in the JSON document of a PowerShell query

(***************************************************************************)
(* JavaScript string primitives on character sequences                     *)
(***************************************************************************)
Digits == {"0", "1", "2", "3", "4", "5", "6", "7", "8", "9"}

DigitVal(c) ==
  CASE c = "0" -> 0 [] c = "1" -> 1 [] c = "2" -> 2 [] c = "3" -> 3
    [] c = "4" -> 4 [] c = "5" -> 5 [] c = "6" -> 6 [] c = "7" -> 7
    [] c = "8" -> 8 [] c = "9" -> 9

\* \s of a JavaScript regular expression, and the characters trim() strips
IsWs(c) == c \in {" ", "\t", "\n", "\r"}

\* s.slice(i - 1): the characters of s from position i on
Drop(s, i) == IF i > Len(s) THEN <<>> ELSE SubSeq(s, i, Len(s))

\* first position >= i of s that holds no white space (Len(s) + 1 if none)
RECURSIVE SkipWs(_, _)
SkipWs(s, i) ==
  IF i > Len(s) \/ ~IsWs(s[i]) THEN i ELSE SkipWs(s, i + 1)

\* last position <= i of s that holds no white space (0 if none)
RECURSIVE SkipWsBack(_, _)
SkipWsBack(s, i) ==
  IF i < 1 \/ ~IsWs(s[i]) THEN i ELSE SkipWsBack(s, i - 1)

\* String.prototype.trim
Trim(s) ==
  LET b == SkipWs(s, 1)
      e == SkipWsBack(s, Len(s))
  IN IF b > e THEN <<>> ELSE SubSeq(s, b, e)

\* first position >= i of s that holds white space (Len(s) + 1 if none)
RECURSIVE SkipNonWs(_, _)
SkipNonWs(s, i) ==
  IF i > Len(s) \/ IsWs(s[i]) THEN i ELSE SkipNonWs(s, i + 1)

\* s.split(/\s+/): a leading or trailing run of white space yields an empty
\* first or last element, and the empty string yields [""]
RECURSIVE SplitWsFrom(_, _, _)
SplitWsFrom(s, i, acc) ==
  LET e == SkipNonWs(s, i)
      tok == SubSeq(s, i, e - 1)
  IN IF e > Len(s) THEN Append(acc, tok)
     ELSE SplitWsFrom(s, SkipWs(s, e), Append(acc, tok))

SplitWs(s) == SplitWsFrom(s, 1, <<>>)

\* s.startsWith(p) at position i
StartsWithAt(s, p, i) ==
  /\ i >= 1
  /\ i + Len(p) - 1 <= Len(s)
  /\ \A k \in 1..Len(p) : s[i + k - 1] = p[k]

StartsWith(s, p) == StartsWithAt(s, p, 1)

\* s.includes(p)
Includes(s, p) == \E i \in 1..(Len(s) + 1) : StartsWithAt(s, p, i)

\* number of digits starting at position i of s
RECURSIVE DigitRun(_, _)
DigitRun(s, i) ==
  IF i > Len(s) \/ s[i] \notin Digits THEN 0 ELSE 1 + DigitRun(s, i + 1)

\* value of the decimal digit string d
RECURSIVE DigitsValue(_)
DigitsValue(d) ==
  IF d = <<>> THEN 0
  ELSE 10 * DigitsValue(SubSeq(d, 1, Len(d) - 1)) + DigitVal(d[Len(d)])

NaN == [nan |-> TRUE, val |-> 0]
Num(n) == [nan |-> FALSE, val |-> n]

\* parseInt(s, 10): leading white space, an optional sign, then the longest
\* run of digits; NaN when there is no digit
parseInt(s) ==
  LET b == SkipWs(s, 1)
      signed == b <= Len(s) /\ s[b] \in {"+", "-"}
      d == IF signed THEN b + 1 ELSE b
      n == DigitRun(s, d)
      v == DigitsValue(SubSeq(s, d, d + n - 1))
  IN IF n = 0 THEN NaN
     ELSE IF signed /\ s[b] = "-" THEN Num(0 - v) ELSE Num(v)

\* s.match(/:(\d+)$/): the digits of group 1, or <<>> when there is no match
\* (group 1 is never empty when the expression matches)
MatchTrailingPort(s) ==
  LET cands == {i \in 1..Len(s) :
                  /\ s[i] = ":"
                  /\ i < Len(s)
                  /\ DigitRun(s, i + 1) = Len(s) - i}
  IN IF cands = {} THEN <<>>
     ELSE LET i == CHOOSE c \in cands : \A o \in cands : c <= o
          IN Drop(s, i + 1)

\* join of the token sequence toks with single spaces
RECURSIVE JoinSp(_)
JoinSp(toks) ==
  IF toks = <<>> THEN <<>>
  ELSE IF Len(toks) = 1 THEN toks[1]
  ELSE toks[1] \o <<" ">> \o JoinSp(Tail(toks))

\* the elements of the sequence s
Range(s) == {s[i] : i \in 1..Len(s)}

\* all sequences over S of length lo..hi
SeqsOf(S, lo, hi) == UNION {[1..n -> S] : n \in lo..hi}

(***************************************************************************)
(* Texts of the model.  S("...") cannot be written in TLA+, so every text  *)
(* is spelled out as its characters.                                       *)
(***************************************************************************)
T_node == <<"n", "o", "d", "e">>
T_sh == <<"s", "h">>
T_u == <<"u">>
T_unknown == <<"u", "n", "k", "n", "o", "w", "n">>
T_7 == <<"7">>
T_12 == <<"1", "2">>
T_x == <<"x">>
T_0 == <<"0">>
T_LISTEN == <<"L", "I", "S", "T", "E", "N">>
T_ESTAB == <<"E", "S", "T", "A", "B">>
T_notfound == <<"n", "o", "t", " ", "f", "o", "u", "n", "d">>
T_someerror == <<"s", "o", "m", "e", " ", "e", "r", "r", "o", "r">>
T_lsofnotfound == <<"l", "s", "o", "f", ":", " ">> \o T_notfound
T_any80 == <<"*", ":", "8", "0">>          \* *:80
T_v6_80 == <<"[", ":", ":", "]", ":", "8", "0">>   \* [::]:80
T_anyany == <<"*", ":", "*">>              \* *:*
T_any0 == <<"*", ":", "0">>                \* *:0
T_usersOpen == <<"u", "s", "e", "r", "s", ":", "(", "(", "\"">>  \* users:(("
T_pidEq == <<"\"", ",", "p", "i", "d", "=">>                     \* ",pid=
T_fdTail == <<",", "f", "d", "=", "3", ")", ")">>                 \* ,fd=3))

(***************************************************************************)
(* Replies of Bun.spawnSync and errors thrown                              *)
(***************************************************************************)
\* a value thrown: isError is "err instanceof Error", hasCode is "code" in err
Thrown(isError, hasCode, code) ==
  [isError |-> isError, hasCode |-> hasCode, code |-> code]

ENOENT == Thrown(TRUE, TRUE, "ENOENT")
EACCES == Thrown(TRUE, TRUE, "EACCES")
EPERM == Thrown(TRUE, TRUE, "EPERM")
ESRCH == Thrown(TRUE, TRUE, "ESRCH")
PlainError == Thrown(TRUE, FALSE, "")
NoError == Thrown(FALSE, FALSE, "")

\* the process ran to completion
Exited(code, stdout, stderr) ==
  [threw |-> FALSE, err |-> NoError, exitCode |-> code, stdout |-> stdout, stderr |-> stderr]

\* Bun.spawnSync threw instead of returning
SpawnThrew(e) ==
  [threw |-> TRUE, err |-> e, exitCode |-> 0, stdout |-> <<>>, stderr |-> <<>>]

\* one external invocation with its reply
Call(cmd, argv, reply) == [cmd |-> cmd, argv |-> argv, reply |-> reply]

\* ways an operation ends
NoResult == [kind |-> "none"]
Returned(v) == [kind |-> "return", value |-> v]
Threw(e) == [kind |-> "throw", err |-> e]
Exit(code) == [kind |-> "exit", code |-> code]

(***************************************************************************)
(* UnixAdapter.parseLsofOutput                                             *)
(***************************************************************************)
ProcessInfo(command, pid, user, port) ==
  [command |-> command, pid |-> pid, user |-> user, port |-> port, protocol |-> "TCP"]

\* the key `${p.pid}:${p.port}` of the deduplication
dedupKey(p) == ToString(p.pid) \o ":" \o ToString(p.port)

\* processes.filter(...) with the seen set: keeps the first entry of every key
RECURSIVE dedupFrom(_, _, _)
dedupFrom(ps, seen, acc) ==
  IF ps = <<>> THEN acc
  ELSE IF dedupKey(Head(ps)) \in seen THEN dedupFrom(Tail(ps), seen, acc)
  ELSE dedupFrom(Tail(ps), seen \cup {dedupKey(Head(ps))}, Append(acc, Head(ps)))

dedup(ps) == dedupFrom(ps, {}, <<>>)

\* parts[i] of a JavaScript array (0-based), "" standing for undefined
Part(parts, i) == IF i + 1 <= Len(parts) THEN parts[i + 1] ELSE <<>>

\* variant: the user is read one field too far (the FD column)
lsofLine_userFromFd(line) ==
  LET parts == SplitWs(line)
      command == Part(parts, 0)
      pidStr == Part(parts, 1)
      user == Part(parts, 3)
      name == Part(parts, 8)
      pid == parseInt(pidStr)
      portMatch == MatchTrailingPort(name)
  IN IF Trim(line) = <<>> THEN <<>>
     ELSE IF command = <<>> \/ pidStr = <<>> \/ user = <<>> THEN <<>>
     ELSE IF pid.nan THEN <<>>
     ELSE IF portMatch = <<>> THEN <<>>
     ELSE <<ProcessInfo(command, pid.val, user, parseInt(portMatch).val)>>

\* body of the loop over the lines: the entry pushed for the line, if any
lsofLine(line) ==
  LET parts == SplitWs(line)
      command == Part(parts, 0)
      pidStr == Part(parts, 1)
      user == Part(parts, 2)
      name == Part(parts, 8)
      pid == parseInt(pidStr)
      portMatch == MatchTrailingPort(name)
  IN IF Trim(line) = <<>> THEN <<>>
     ELSE IF command = <<>> \/ pidStr = <<>> \/ user = <<>> THEN <<>>
     ELSE IF pid.nan THEN <<>>
     ELSE IF portMatch = <<>> THEN <<>>
     ELSE <<ProcessInfo(command, pid.val, user, parseInt(portMatch).val)>>

RECURSIVE lsofLines(_)
lsofLines(lines) ==
  IF lines = <<>> THEN <<>> ELSE lsofLine(Head(lines)) \o lsofLines(Tail(lines))

\* output is the list of the lines of the text, that is output.split("\n");
\* slice(1) drops the header
parseLsofOutput(output) == dedup(lsofLines(Tail(output)))


(***************************************************************************)
(* UnixAdapter.tryLsof                                                     *)
(***************************************************************************)
\* what a strategy yields: null (tool not available), a list, or a rethrown error
IsNull == [kind |-> "null", list |-> <<>>, err |-> NoError]
IsList(l) == [kind |-> "list", list |-> l, err |-> NoError]
Rethrow(e) == [kind |-> "throw", list |-> <<>>, err |-> e]

\* variant: every thrown value counts as "executable not found"
isENOENT_anyThrow(e) == TRUE

\* err instanceof Error && "code" in err && err.code === "ENOENT"
isENOENT(e) == e.isError /\ e.hasCode /\ e.code = "ENOENT"

\* variant: only the exit code is looked at
notAvailable_exitCodeOnly(proc) == proc.exitCode = 127

\* variant: every non-zero exit counts as "not installed"
notAvailable_anyFailure(proc) == TRUE

\* stderr.includes("not found") || proc.exitCode === 127
notAvailable(proc) == Includes(proc.stderr, T_notfound) \/ proc.exitCode = 127

tryLsof(proc) ==
  IF proc.threw THEN (IF isENOENT(proc.err) THEN IsNull ELSE Rethrow(proc.err))
  ELSE IF proc.exitCode # 0 THEN (IF notAvailable(proc) THEN IsNull ELSE IsList(<<>>))
  ELSE IsList(parseLsofOutput(proc.stdout))

(***************************************************************************)
(* UnixAdapter.parseSsOutput, getProcessUser, trySs                        *)
(***************************************************************************)
NoMatch == [ok |-> FALSE, name |-> <<>>, pid |-> <<>>]

\* position of the first double quote at or after i (Len(s) + 1 if none)
RECURSIVE NextQuote(_, _)
NextQuote(s, i) ==
  IF i > Len(s) \/ s[i] = "\"" THEN i ELSE NextQuote(s, i + 1)

\* the match of /users:\(\("([^"]+)",pid=(\d+)/ that starts at position i
usersMatchAt(s, i) ==
  LET b == i + Len(T_usersOpen)
      q == NextQuote(s, b)
      d == q + Len(T_pidEq)
      n == DigitRun(s, d)
  IN IF StartsWithAt(s, T_usersOpen, i) /\ q > b /\ StartsWithAt(s, T_pidEq, q) /\ n > 0
     THEN [ok |-> TRUE, name |-> SubSeq(s, b, q - 1), pid |-> SubSeq(s, d, d + n - 1)]
     ELSE NoMatch

\* line.match(/users:\(\("([^"]+)",pid=(\d+)/): the leftmost match
usersMatch(s) ==
  LET starts == {i \in 1..Len(s) : usersMatchAt(s, i).ok}
  IN IF starts = {} THEN NoMatch
     ELSE usersMatchAt(s, CHOOSE i \in starts : \A o \in starts : i <= o)

\* the stat invocation of getProcessUser
statCall(pid, reply) ==
  Call("stat", <<"-c", "%U", "/proc/" \o ToString(pid)>>, reply)

\* getProcessUser(pid) ?? "unknown"
getProcessUser(reply) ==
  IF ~reply.threw /\ reply.exitCode = 0 THEN Trim(reply.stdout) ELSE T_unknown

\* variant: lines in any state are parsed
ssLineAccepted_anyState(line) ==
  LET m == usersMatch(line)
  IN /\ Trim(line) # <<>>
     /\ MatchTrailingPort(Part(SplitWs(line), 3)) # <<>>
     /\ m.ok
     /\ parseInt(m.pid).val # 0

\* the line passes every "continue" of the loop body
ssLineAccepted(line) ==
  LET m == usersMatch(line)
  IN /\ Trim(line) # <<>>
     /\ StartsWith(line, T_LISTEN)
     /\ MatchTrailingPort(Part(SplitWs(line), 3)) # <<>>
     /\ m.ok
     /\ parseInt(m.pid).val # 0

\* the entry pushed for an accepted line, user being the owner looked up
ssLineEntry(line, statReply) ==
  LET m == usersMatch(line)
  IN ProcessInfo(m.name, parseInt(m.pid).val, getProcessUser(statReply),
                 parseInt(MatchTrailingPort(Part(SplitWs(line), 3))).val)

\* the loop over the lines; stats are the replies the stat invocations get, in
\* order.  Yields the entries pushed and the stat invocations made.
RECURSIVE ssLines(_, _, _, _)
ssLines(lines, stats, ps, made) ==
  IF lines = <<>> THEN [list |-> ps, made |-> made]
  ELSE IF ~ssLineAccepted(Head(lines)) THEN ssLines(Tail(lines), stats, ps, made)
  ELSE ssLines(Tail(lines), Tail(stats),
               Append(ps, ssLineEntry(Head(lines), Head(stats))),
               Append(made, statCall(parseInt(usersMatch(Head(lines)).pid).val, Head(stats))))

parseSsOutput(output, stats) ==
  LET r == ssLines(Tail(output), stats, <<>>, <<>>)
  IN [list |-> dedup(r.list), made |-> r.made]

\* yields the strategy outcome and the stat invocations made while parsing
trySs(proc, stats) ==
  IF proc.threw
  THEN [out |-> IF isENOENT(proc.err) THEN IsNull ELSE Rethrow(proc.err), made |-> <<>>]
  ELSE IF proc.exitCode # 0
  THEN [out |-> IF notAvailable(proc) THEN IsNull ELSE IsList(<<>>), made |-> <<>>]
  ELSE LET r == parseSsOutput(proc.stdout, stats)
       IN [out |-> IsList(r.list), made |-> r.made]


(***************************************************************************)
(* Tool outputs the discovery is run on.  The data lines are built from    *)
(* known commands, pids and addresses, so that what a parser extracts can  *)
(* be compared with what the line was built from.                          *)
(***************************************************************************)
T_lsofHeader == <<"C", "O", "M", "M", "A", "N", "D", " ", "P", "I", "D", " ", "U", "S", "E", "R">>
T_ssHeader == <<"S", "t", "a", "t", "e", " ", "R", "e", "c", "v", "-", "Q">>

\* local addresses with the port they name (-1: no numeric port)
A_any80 == [text |-> T_any80, port |-> 80]
A_v6_80 == [text |-> T_v6_80, port |-> 80]
A_anyany == [text |-> T_anyany, port |-> -1]
A_any0 == [text |-> T_any0, port |-> 0]

\* pid fields with the pid they name (-1: not a number)
P_7 == [text |-> T_7, pid |-> 7]
P_12 == [text |-> T_12, pid |-> 12]
P_0 == [text |-> T_0, pid |-> 0]
P_x == [text |-> T_x, pid |-> -1]

\* node 7 u 3u IPv4 0x1 0t0 TCP *:80 (LISTEN)
LsofLine(command, pid, user, name) ==
  JoinSp(<<command, pid, user, <<"3", "u">>, <<"I", "P", "v", "4">>, <<"0", "x", "1">>,
           <<"0", "t", "0">>, <<"T", "C", "P">>, name, <<"(">> \o T_LISTEN \o <<")">>>>)

\* the well-formed lsof lines with the values they were built from
LsofBuilt ==
  {[line |-> LsofLine(cp[1], cp[2].text, T_u, a.text),
    command |-> cp[1], pid |-> cp[2].pid, user |-> T_u, port |-> a.port] :
     cp \in {<<T_node, P_7>>, <<T_sh, P_7>>, <<T_sh, P_12>>, <<T_node, P_x>>},
     a \in {A_any80, A_v6_80, A_anyany, A_any0}}

LsofLines ==
  {b.line : b \in LsofBuilt}
  \cup {<<>>,                                        \* blank line
        JoinSp(<<T_sh, T_7>>),                       \* too few fields
        <<" ">> \o LsofLine(T_node, T_7, T_u, T_any80)}  \* indented line

\* the empty output, or the header followed by data lines
LsofOutputs ==
  {<< <<>> >>} \cup {<<T_lsofHeader>> \o ls : ls \in SeqsOf(LsofLines, 0, MaxLsofLines)}

\* users:(("node",pid=7,fd=3))
UsersField(command, pid) == T_usersOpen \o command \o T_pidEq \o pid \o T_fdTail

\* LISTEN 0 128 *:80 *:* users:(("node",pid=7,fd=3))
SsLine(state, addr, users) ==
  JoinSp(<<state, <<"0">>, <<"1", "2", "8">>, addr, T_anyany>> \o users)

\* the ss lines in LISTEN state with the values they were built from
SsBuilt ==
  {[line |-> SsLine(T_LISTEN, a.text, <<UsersField(cp[1], cp[2].text)>>),
    command |-> cp[1], pid |-> cp[2].pid, port |-> a.port] :
     a \in {A_any80, A_v6_80, A_anyany},
     cp \in {<<T_node, P_7>>, <<T_sh, P_12>>, <<T_node, P_0>>}}

SsLines ==
  {b.line : b \in SsBuilt}
  \cup {<<>>,                                                 \* blank line
        SsLine(T_LISTEN, T_any80, <<>>),                      \* no users: field
        SsLine(T_ESTAB, T_any80, <<UsersField(T_node, T_7)>>)} \* not listening

SsOutputs ==
  {<< <<>> >>} \cup {<<T_ssHeader>> \o ls : ls \in SeqsOf(SsLines, 0, MaxSsLines)}

SpawnErrors == {ENOENT, EACCES, PlainError, Thrown(FALSE, TRUE, "ENOENT")}

\* replies to a spawn of lsof or ss whose zero-exit outputs are outs
ToolReplies(outs) ==
  {SpawnThrew(e) : e \in SpawnErrors}
  \cup {Exited(1, << <<>> >>, T_someerror), Exited(127, << <<>> >>, T_someerror),
        Exited(1, << <<>> >>, T_lsofnotfound)}
  \cup {Exited(0, o, <<>>) : o \in outs}

\* replies to the stat of /proc/PID; the owner printed is "u"
StatReplies ==
  {Exited(0, T_u \o <<"\n">>, <<>>), Exited(1, <<>>, T_someerror), SpawnThrew(ENOENT)}

\* number of stat invocations the parse of an ss reply makes
ssStatCount(proc) ==
  IF proc.threw \/ proc.exitCode # 0 THEN 0
  ELSE Cardinality({i \in 2..Len(proc.stdout) : ssLineAccepted(proc.stdout[i])})

(***************************************************************************)
(* UnixAdapter.getListeningProcesses: the lsof strategy, then the ss       *)
(* strategy with the fatal exit when it is unavailable too                 *)
(***************************************************************************)
Init ==
  /\ op = "none"
  /\ args = <<>>
  /\ pc = "start"
  /\ calls = <<>>
  /\ errors = <<>>
  /\ result = NoResult
  /\ locals = <<>>
  /\ printed = <<>>

\* variant: zero results instead of the fatal exit
neitherAvailable_emptyList == [errors |-> <<>>, result |-> Returned(<<>>)]

\* how the call ends when trySs returned null
neitherAvailable ==
  [errors |-> <<"Neither lsof nor ss available. Install lsof or iproute2.">>,
   result |-> Exit(1)]

\* const lsofResult = this.tryLsof(); if (lsofResult !== null) return lsofResult;
Unix_tryLsof ==
  /\ pc = "start"
  /\ \E proc \in ToolReplies(LsofOutputs) :
       \E r \in {tryLsof(proc)} :
          /\ op' = "unix.getListeningProcesses"
          /\ calls' = <<Call("lsof", <<"-iTCP", "-sTCP:LISTEN", "-P", "-n">>, proc)>>
          /\ pc' = IF r.kind = "null" THEN "trySs" ELSE "done"
          /\ result' = CASE r.kind = "null" -> NoResult
                         [] r.kind = "list" -> Returned(r.list)
                         [] r.kind = "throw" -> Threw(r.err)
  /\ UNCHANGED <<args, errors>>
  /\ UNCHANGED <<locals, printed>>

\* const ssResult = this.trySs(); if (ssResult !== null) return ssResult;
\* console.error("Neither lsof nor ss available. ..."); process.exit(1);
Unix_trySs ==
  /\ pc = "trySs"
  /\ \E proc \in ToolReplies(SsOutputs) :
       \E stats \in [1..ssStatCount(proc) -> StatReplies] :
         \E r \in {trySs(proc, stats)} :
            /\ calls' = calls \o <<Call("ss", <<"-tulnp">>, proc)>> \o r.made
            /\ result' = CASE r.out.kind = "null" -> neitherAvailable.result
                           [] r.out.kind = "list" -> Returned(r.out.list)
                           [] r.out.kind = "throw" -> Threw(r.out.err)
            /\ errors' = IF r.out.kind = "null"
                         THEN errors \o neitherAvailable.errors ELSE errors
  /\ pc' = "done"
  /\ UNCHANGED <<op, args>>
  /\ UNCHANGED <<locals, printed>>

(***************************************************************************)
(* WindowsAdapter.getListeningProcesses                                    *)
(***************************************************************************)
\* JSON values: null, a missing property, a number (n), a string (s)
JNull == [t |-> "null", n |-> 0, s |-> ""]
JUndef == [t |-> "undefined", n |-> 0, s |-> ""]
JNum(x) == [t |-> "num", n |-> x, s |-> ""]
JStr(x) == [t |-> "str", n |-> 0, s |-> x]

\* x ?? d
Nullish(x, d) == IF x.t \in {"null", "undefined"} THEN d ELSE x

\* The trimmed stdout of a PowerShell query.  text is what the comparisons
\* with "", "null", "{}" and "[]" see; for text "json" the document parses and
\* shape and items give what JSON.parse yields: an array of records, one bare
\* record (items has one element), or a scalar.
PsText(text) == [text |-> text, shape |-> "none", items |-> <<>>]
PsArray(items) == [text |-> IF items = <<>> THEN "[]" ELSE "json", shape |-> "array", items |-> items]
PsObject(item) == [text |-> "json", shape |-> "object", items |-> <<item>>]
PsScalar == [text |-> "json", shape |-> "scalar", items |-> <<>>]

\* the record of a scalar: every property is undefined
ScalarItem == [Port |-> JUndef, PID |-> JUndef, Name |-> JUndef, User |-> JUndef]

\* JSON.parse threw
jsonInvalid(out) == out.text = "invalid"

\* variant: a document that is not an array is taken to hold no record
jsonItems_arrayOnly(out, scalarItem) ==
  IF out.shape = "array" THEN out.items ELSE <<>>

\* const items = Array.isArray(data) ? data : [data];
jsonItems(out, scalarItem) ==
  IF out.shape = "scalar" THEN <<scalarItem>> ELSE out.items

\* the arrow function of items.map
listeningItem(item) ==
  [port |-> item.Port, pid |-> item.PID, command |-> item.Name,
   user |-> Nullish(item.User, JStr("unknown")), protocol |-> "TCP"]

\* variant: a failed query gives zero results
windowsQueryFailed_emptyList == [result |-> Returned(<<>>), errors |-> <<>>]

\* if (proc.exitCode !== 0) { console.error(...); process.exit(1); }
windowsQueryFailed ==
  [result |-> Exit(1), errors |-> <<"Failed to query listening ports via PowerShell.">>]

windowsGetListeningProcesses(proc) ==
  IF proc.threw THEN [result |-> Threw(proc.err), errors |-> <<>>]
  ELSE IF proc.exitCode # 0 THEN windowsQueryFailed
  ELSE IF proc.stdout.text \in {"", "null"} THEN [result |-> Returned(<<>>), errors |-> <<>>]
  ELSE IF jsonInvalid(proc.stdout)
  THEN [result |-> Returned(<<>>), errors |-> <<"Failed to parse PowerShell output.">>]
  ELSE [result |-> Returned([i \in 1..Len(jsonItems(proc.stdout, ScalarItem)) |->
                               listeningItem(jsonItems(proc.stdout, ScalarItem)[i])]),
        errors |-> <<>>]

\* records of the Get-NetTCPConnection query
ListenItems ==
  {[Port |-> JNum(p), PID |-> JNum(q), Name |-> JStr("node"), User |-> u] :
     p \in {80, 443}, q \in {4, 7}, u \in {JStr("alice"), JNull}}

PsListenReplies ==
  {SpawnThrew(ENOENT), Exited(1, PsText(""), T_someerror),
   Exited(1, PsObject([Port |-> JNum(80), PID |-> JNum(4), Name |-> JStr("node"),
                       User |-> JStr("alice")]), <<>>)}
  \cup {Exited(0, PsText(t), <<>>) : t \in {"", "null", "invalid"}}
  \cup {Exited(0, PsScalar, <<>>)}
  \cup {Exited(0, PsObject(i), <<>>) : i \in ListenItems}
  \cup {Exited(0, PsArray(is), <<>>) : is \in SeqsOf(ListenItems, 0, MaxItems)}

Windows_getListeningProcesses ==
  /\ pc = "start"
  /\ \E proc \in PsListenReplies :
       \E r \in {windowsGetListeningProcesses(proc)} :
          /\ op' = "windows.getListeningProcesses"
          /\ calls' = <<Call("powershell", <<"-NoProfile", "-Command", "Get-NetTCPConnection">>, proc)>>
          /\ result' = r.result
          /\ errors' = r.errors
  /\ pc' = "done"
  /\ UNCHANGED args
  /\ UNCHANGED <<locals, printed>>

NextDiscovery == Unix_tryLsof \/ Unix_trySs \/ Windows_getListeningProcesses

SpecDiscovery == Init /\ [][NextDiscovery]_vars

(***************************************************************************)
(* Properties of the port discovery                                        *)
(***************************************************************************)
IsDiscovery == op \in {"unix.getListeningProcesses", "windows.getListeningProcesses"}

\* the port of a returned entry as an integer (-1 when it is not a number)
PortNumber(e) ==
  IF op = "windows.getListeningProcesses"
  THEN (IF e.port.t = "num" THEN e.port.n ELSE -1)
  ELSE e.port

\* C1: the list returned by a discovery call, on either adapter, holds no two
\* entries with the same (pid, port) pair.
C1_NoDuplicatePidPort ==
  (IsDiscovery /\ result.kind = "return") =>
    \A i, j \in 1..Len(result.value) :
      i # j => ~(result.value[i].pid = result.value[j].pid
                 /\ result.value[i].port = result.value[j].port)

\* C2: every entry returned by a discovery call has a port in 1..65535 and
\* protocol "TCP".
C2_PortInRangeAndTcp ==
  (IsDiscovery /\ result.kind = "return") =>
    \A i \in 1..Len(result.value) :
      /\ PortNumber(result.value[i]) \in 1..65535
      /\ result.value[i].protocol = "TCP"

\* the reply says the tool is not installed: ENOENT thrown, exit code 127, or
\* a non-zero exit with the not-found marker on stderr
ToolUnavailable(r) ==
  \/ r.threw /\ r.err = ENOENT
  \/ ~r.threw /\ r.exitCode = 127
  \/ ~r.threw /\ r.exitCode # 0 /\ r.stderr = T_lsofnotfound

\* the tool ran and failed: non-zero exit, not 127, no marker
ToolFailed(r) ==
  ~r.threw /\ r.exitCode \notin {0, 127} /\ r.stderr # T_lsofnotfound

\* the owner a stat reply reports
OwnerReported(r) == IF r = Exited(0, T_u \o <<"\n">>, <<>>) THEN T_u ELSE T_unknown

\* The listeners of the ss output of calls[2], from what its lines were built
\* from: the lines in LISTEN state with a numeric port and a non-zero pid, the
\* k-th of them owned by whom the k-th stat reply reports, first one per
\* (pid, port) kept.
SsExpected ==
  LET lines == Tail(calls[2].reply.stdout)
      Built(i) == CHOOSE b \in SsBuilt : b.line = lines[i]
      L == {i \in 1..Len(lines) :
              \E b \in SsBuilt : b.line = lines[i] /\ b.port >= 0 /\ b.pid # 0}
      rank(i) == Cardinality({j \in L : j <= i})
      kept == {i \in L : \A j \in L :
                 j < i => ~(Built(j).pid = Built(i).pid /\ Built(j).port = Built(i).port)}
      nth(k) == CHOOSE i \in kept : Cardinality({j \in kept : j <= i}) = k
  IN [stats |-> Cardinality(L),
      list |-> [k \in 1..Cardinality(kept) |->
                  ProcessInfo(Built(nth(k)).command, Built(nth(k)).pid,
                              OwnerReported(calls[2 + rank(nth(k))].reply),
                              Built(nth(k)).port)]]

\* C3: when lsof is not installed and ss exits 0, the call goes on to ss and
\* returns exactly the listeners of the ss output, command, pid and port as
\* written on the line and user as reported by the owner lookup.
C3_SsFallbackResult ==
  (op = "unix.getListeningProcesses" /\ pc = "done" /\ ToolUnavailable(calls[1].reply)) =>
    /\ Len(calls) >= 2
    /\ calls[2].cmd = "ss"
    /\ (~calls[2].reply.threw /\ calls[2].reply.exitCode = 0) =>
         /\ result = Returned(SsExpected.list)
         /\ Len(calls) = 2 + SsExpected.stats
         /\ \A k \in 3..Len(calls) : calls[k].cmd = "stat"

C3_Witness ==
  /\ op = "unix.getListeningProcesses" /\ pc = "done"
  /\ Len(calls) >= 3
  /\ calls[1].reply = Exited(1, << <<>> >>, T_lsofnotfound)
  /\ calls[2].reply.exitCode = 0
  /\ result.kind = "return"
  /\ Len(result.value) = 2
  /\ result.value[1].user = T_u

\* C4: an lsof that ran and failed (non-zero exit other than 127, no marker)
\* ends the call with the empty list and without an ss invocation; an ss that
\* failed that way ends it with the empty list and not with the fatal exit.
C4_FailedToolGivesEmptyList ==
  /\ (op = "unix.getListeningProcesses" /\ ToolFailed(calls[1].reply)) =>
       /\ pc = "done"
       /\ result = Returned(<<>>)
       /\ Len(calls) = 1
  /\ (op = "unix.getListeningProcesses" /\ Len(calls) >= 2 /\ ToolFailed(calls[2].reply)) =>
       /\ pc = "done"
       /\ result = Returned(<<>>)
       /\ errors = <<>>

C4_Witness ==
  /\ op = "unix.getListeningProcesses"
  /\ Len(calls) = 1
  /\ calls[1].reply = Exited(1, << <<>> >>, T_someerror)
  /\ result = Returned(<<>>)

\* C5: when lsof and ss are both not installed the call writes the "Neither
\* lsof nor ss available" error and exits with code 1; it returns no list and
\* the ss invocation is the last external command.
C5_NeitherToolIsFatal ==
  (/\ op = "unix.getListeningProcesses"
   /\ Len(calls) >= 2
   /\ ToolUnavailable(calls[1].reply)
   /\ ToolUnavailable(calls[2].reply)) =>
    /\ pc = "done"
    /\ result = Exit(1)
    /\ errors = <<"Neither lsof nor ss available. Install lsof or iproute2.">>
    /\ Len(calls) = 2
    /\ calls[2].cmd = "ss"

C5_Witness ==
  /\ op = "unix.getListeningProcesses"
  /\ Len(calls) = 2
  /\ calls[1].reply = Exited(127, << <<>> >>, T_someerror)
  /\ calls[2].reply = SpawnThrew(ENOENT)
  /\ result = Exit(1)


\* lsof exited 0 and its output was parsed
LsofParsed ==
  /\ op = "unix.getListeningProcesses"
  /\ ~calls[1].reply.threw /\ calls[1].reply.exitCode = 0

\* The entries of the lsof output of calls[1], from what its lines were built
\* from: the lines with a numeric pid field and an address ending in a port
\* number, first one per (pid, port) kept, in the order of the lines.
LsofExpected ==
  LET lines == Tail(calls[1].reply.stdout)
      Built(i) == CHOOSE b \in LsofBuilt : b.line = lines[i]
      L == {i \in 1..Len(lines) :
              \E b \in LsofBuilt : b.line = lines[i] /\ b.pid >= 0 /\ b.port >= 0}
      kept == {i \in L : \A j \in L :
                 j < i => ~(Built(j).pid = Built(i).pid /\ Built(j).port = Built(i).port)}
      nth(k) == CHOOSE i \in kept : Cardinality({j \in kept : j <= i}) = k
  IN [k \in 1..Cardinality(kept) |->
        ProcessInfo(Built(nth(k)).command, Built(nth(k)).pid, Built(nth(k)).user,
                    Built(nth(k)).port)]

\* C18: the list parsed from an lsof output has, in line order, one entry for
\* every data line with three non-empty leading fields, a numeric second field
\* and a ninth field ending in ':' and digits (the first such line of every
\* pid and port), with command, pid and user the first three fields and port
\* those digits; the header, blank lines, lines with too few fields, indented
\* lines and lines whose address has no numeric port give no entry.
C18_LsofPositional ==
  LsofParsed => (pc = "done" /\ result = Returned(LsofExpected))

C18_Witness ==
  /\ LsofParsed
  /\ Len(calls[1].reply.stdout) = 3
  /\ calls[1].reply.stdout[2] = LsofLine(T_sh, T_12, T_u, T_anyany)
  /\ result = Returned(<<ProcessInfo(T_node, 7, T_u, 80)>>)

\* ss exited 0 and its output was parsed
SsParsed ==
  /\ op = "unix.getListeningProcesses" /\ pc = "done" /\ Len(calls) >= 2
  /\ ~calls[2].reply.threw /\ calls[2].reply.exitCode = 0

\* the data lines of the ss output that are LISTEN lines with a numeric port
\* and a users field with a non-zero pid, as positions, with what they were
\* built from
SsListeners ==
  {i \in 2..Len(calls[2].reply.stdout) :
     \E b \in SsBuilt : b.line = calls[2].reply.stdout[i] /\ b.port >= 0 /\ b.pid # 0}

SsListenerBuilt(i) == CHOOSE b \in SsBuilt : b.line = calls[2].reply.stdout[i]

\* the stat invocation made for the listener line at position i
SsStatOf(i) == calls[2 + Cardinality({j \in SsListeners : j <= i})]

\* C19: every entry of the list parsed from an ss output comes from a LISTEN
\* line with a numeric port in its 4th token and a users field with a non-zero
\* pid, and every such line has its entry; the entry has the port, name and pid
\* written on the line, and as user what the stat of /proc/pid reported, or
\* "unknown" when that stat exited non-zero or threw.  Other lines give no
\* entry and no stat.
C19_SsParserListenOnly ==
  SsParsed =>
    /\ result.kind = "return"
    /\ Len(calls) = 2 + Cardinality(SsListeners)
    /\ \A i \in SsListeners :
         /\ SsStatOf(i).cmd = "stat"
         /\ SsStatOf(i).argv[3] = "/proc/" \o ToString(SsListenerBuilt(i).pid)
         /\ \E k \in 1..Len(result.value) :
              /\ result.value[k].pid = SsListenerBuilt(i).pid
              /\ result.value[k].port = SsListenerBuilt(i).port
    /\ \A k \in 1..Len(result.value) :
         \E i \in SsListeners :
           /\ result.value[k] =
                ProcessInfo(SsListenerBuilt(i).command, SsListenerBuilt(i).pid,
                            OwnerReported(SsStatOf(i).reply), SsListenerBuilt(i).port)
           /\ result.value[k].user \in {T_u, T_unknown}

C19_Witness ==
  /\ SsParsed
  /\ Len(calls[2].reply.stdout) = 3
  /\ calls[2].reply.stdout[2] = SsLine(T_ESTAB, T_any80, <<UsersField(T_node, T_7)>>)
  /\ Len(calls) = 3
  /\ calls[3].reply = Exited(1, <<>>, T_someerror)
  /\ result = Returned(<<ProcessInfo(T_sh, 12, T_unknown, 80)>>)

\* the Windows discovery ran PowerShell to completion with exit code 0
WindowsQueryOk ==
  /\ op = "windows.getListeningProcesses" /\ pc = "done"
  /\ ~calls[1].reply.threw /\ calls[1].reply.exitCode = 0

\* C15: when PowerShell exits 0, getListeningProcesses returns normally: the
\* empty list for empty output, for the text null and for output that is not
\* valid JSON; one entry for a bare JSON object; and for an array of n objects
\* n entries, the i-th with the port, pid and name of the i-th object.
C15_OneEntryPerRecord ==
  WindowsQueryOk =>
    LET out == calls[1].reply.stdout
    IN /\ result.kind = "return"
       /\ out.text \in {"", "null", "invalid"} => result.value = <<>>
       /\ out.shape = "object" => Len(result.value) = 1
       /\ out.shape \in {"object", "array"} =>
            /\ Len(result.value) = Len(out.items)
            /\ \A i \in 1..Len(out.items) :
                 /\ result.value[i].port = out.items[i].Port
                 /\ result.value[i].pid = out.items[i].PID
                 /\ result.value[i].command = out.items[i].Name

C15_Witness ==
  /\ WindowsQueryOk
  /\ calls[1].reply.stdout.shape = "object"
  /\ result.kind = "return"
  /\ Len(result.value) = 1
  /\ result.value[1].port = JNum(443)

\* C16: when the PowerShell discovery query exits with a non-zero code,
\* getListeningProcesses writes its error message and exits the process with
\* code 1: it returns no list, whatever the query printed, and the query is the
\* only external command of the call.
C16_WindowsQueryFailureIsFatal ==
  (/\ op = "windows.getListeningProcesses" /\ pc = "done"
   /\ ~calls[1].reply.threw /\ calls[1].reply.exitCode # 0) =>
    /\ result = Exit(1)
    /\ errors = <<"Failed to query listening ports via PowerShell.">>
    /\ Len(calls) = 1
    /\ calls[1].cmd = "powershell"

C16_Witness ==
  /\ op = "windows.getListeningProcesses" /\ pc = "done"
  /\ calls[1].reply.exitCode = 1
  /\ calls[1].reply.stdout.shape = "object"
  /\ result = Exit(1)


(***************************************************************************)
(* WindowsAdapter.getProcessMetadataBatch                                  *)
(***************************************************************************)
ProcessMetadata(cpu, mem, start, path, cwd) ==
  [cpuPercent |-> cpu, memoryBytes |-> mem, startTime |-> start, path |-> path, cwd |-> cwd]

emptyMetadata == ProcessMetadata(JNull, JNull, JNull, JNull, JNull)

\* typeof x === "number" ? x : null
NumberOrNull(x) == IF x.t = "num" THEN x ELSE JNull

\* variant: no default entries
batchDefaults_none(pids) == [p \in {} |-> emptyMetadata]

\* for (const pid of pids) metadataMap.set(pid, this.emptyMetadata());
batchDefaults(pids) == [p \in Range(pids) |-> emptyMetadata]

\* the assignments to existing.cpuPercent ... existing.cwd
batchItem(item) ==
  ProcessMetadata(NumberOrNull(item.CPU), NumberOrNull(item.Memory),
                  Nullish(item.StartTime, JNull), Nullish(item.Path, JNull),
                  Nullish(item.Cwd, JNull))

\* for (const item of items) { const existing = metadataMap.get(item.PID); ... }
RECURSIVE batchApply(_, _)
batchApply(map, items) ==
  IF items = <<>> THEN map
  ELSE LET item == Head(items)
           found == item.PID.t = "num" /\ item.PID.n \in DOMAIN map
       IN batchApply(IF found THEN [map EXCEPT ![item.PID.n] = batchItem(item)] ELSE map,
                     Tail(items))

\* pids.join(",")
RECURSIVE joinComma(_)
joinComma(pids) ==
  IF pids = <<>> THEN ""
  ELSE IF Len(pids) = 1 THEN ToString(pids[1])
  ELSE ToString(pids[1]) \o "," \o joinComma(Tail(pids))

\* the record of a scalar of the batch query: every property is undefined
ScalarBatchItem ==
  [PID |-> JUndef, CPU |-> JUndef, Memory |-> JUndef, StartTime |-> JUndef,
   Path |-> JUndef, Cwd |-> JUndef]

\* variant: one PowerShell invocation per pid
batchCalls_perPid(pids, proc) ==
  [i \in 1..Len(pids) |->
     Call("powershell", <<"-NoProfile", "-Command", "$pids = @(" \o ToString(pids[i]) \o ")">>, proc)]

\* the invocations of one call: none for the empty list, else the one query
batchCalls(pids, proc) ==
  IF Len(pids) = 0 THEN <<>>
  ELSE <<Call("powershell", <<"-NoProfile", "-Command", "$pids = @(" \o joinComma(pids) \o ")">>, proc)>>

\* the map returned
getProcessMetadataBatch(pids, proc) ==
  IF Len(pids) = 0 THEN batchDefaults(<<>>)
  ELSE IF proc.threw THEN batchDefaults(pids)
  ELSE IF proc.exitCode # 0 THEN batchDefaults(pids)
  ELSE IF proc.stdout.text \in {"", "null", "[]"} THEN batchDefaults(pids)
  ELSE IF jsonInvalid(proc.stdout) THEN batchDefaults(pids)
  ELSE batchApply(batchDefaults(pids), jsonItems(proc.stdout, ScalarBatchItem))

Pids == 1..MaxPid

\* records of the batch query with the metadata they stand for: every field
\* usable, another set of usable values, and no usable field
BatchBuilt ==
  UNION {
    {[item |-> [PID |-> JNum(p), CPU |-> JNum(5), Memory |-> JNum(2048),
                StartTime |-> JStr("2025-01-01T12:00:00"), Path |-> JStr("C:\\node.exe"),
                Cwd |-> JStr("C:\\")],
      pid |-> p,
      meta |-> ProcessMetadata(JNum(5), JNum(2048), JStr("2025-01-01T12:00:00"),
                               JStr("C:\\node.exe"), JStr("C:\\"))],
     [item |-> [PID |-> JNum(p), CPU |-> JNum(9), Memory |-> JNum(4096),
                StartTime |-> JNull, Path |-> JStr("C:\\sh.exe"), Cwd |-> JNull],
      pid |-> p,
      meta |-> ProcessMetadata(JNum(9), JNum(4096), JNull, JStr("C:\\sh.exe"), JNull)],
     [item |-> [PID |-> JNum(p), CPU |-> JNull, Memory |-> JStr("n/a"),
                StartTime |-> JNull, Path |-> JNull, Cwd |-> JUndef],
      pid |-> p,
      meta |-> ProcessMetadata(JNull, JNull, JNull, JNull, JNull)]} : p \in Pids}

BatchItems == {b.item : b \in BatchBuilt}

BatchReplies ==
  {SpawnThrew(ENOENT), Exited(1, PsText(""), T_someerror)}
  \cup {Exited(0, PsText(t), <<>>) : t \in {"", "null", "invalid"}}
  \cup {Exited(0, PsScalar, <<>>)}
  \cup {Exited(0, PsObject(i), <<>>) : i \in BatchItems}
  \cup {Exited(0, PsArray(is), <<>>) : is \in SeqsOf(BatchItems, 0, MaxItems)}

\* the reply never looked at, for a call that makes no invocation
NoReply == Exited(0, PsText(""), <<>>)

Windows_getProcessMetadataBatch ==
  /\ pc = "start"
  /\ \E pids \in SeqsOf(Pids, 0, MaxPidList) :
       \E proc \in IF Len(pids) = 0 THEN {NoReply} ELSE BatchReplies :
          /\ op' = "windows.getProcessMetadataBatch"
          /\ args' = [pids |-> pids]
          /\ calls' = batchCalls(pids, proc)
          /\ result' = Returned(getProcessMetadataBatch(pids, proc))
  /\ pc' = "done"
  /\ UNCHANGED errors
  /\ UNCHANGED <<locals, printed>>

NextBatch == Windows_getProcessMetadataBatch

SpecBatch == Init /\ [][NextBatch]_vars

(***************************************************************************)
(* Properties of the batch metadata query                                  *)
(***************************************************************************)
\* the records the query returned for pid p, as positions in the document
ReturnedFor(p) ==
  IF calls = <<>> \/ calls[1].reply.threw \/ calls[1].reply.exitCode # 0
     \/ calls[1].reply.stdout.shape \notin {"object", "array"}
  THEN {}
  ELSE {i \in 1..Len(calls[1].reply.stdout.items) :
          \E b \in BatchBuilt : b.item = calls[1].reply.stdout.items[i] /\ b.pid = p}

\* the metadata the record at position i stands for
MetaOf(i) ==
  (CHOOSE b \in BatchBuilt : b.item = calls[1].reply.stdout.items[i]).meta

\* C6: the map returned by getProcessMetadataBatch has exactly the requested
\* pids as keys; a pid the query returned nothing for maps to the all-absent
\* record, a pid it returned a record for maps to the values of that record
\* (of the last one when there are several).
C6_BatchMapComplete ==
  (op = "windows.getProcessMetadataBatch" /\ pc = "done") =>
    /\ result.kind = "return"
    /\ DOMAIN result.value = Range(args.pids)
    /\ \A p \in Range(args.pids) :
         IF ReturnedFor(p) = {}
         THEN result.value[p] = ProcessMetadata(JNull, JNull, JNull, JNull, JNull)
         ELSE result.value[p] =
                MetaOf(CHOOSE i \in ReturnedFor(p) : \A j \in ReturnedFor(p) : j <= i)

\* pids 1 and 2 requested, the query returns a record for 2 and one for 3
C6_Witness ==
  /\ op = "windows.getProcessMetadataBatch" /\ pc = "done"
  /\ args.pids = <<1, 2>>
  /\ ReturnedFor(1) = {} /\ ReturnedFor(2) # {} /\ ReturnedFor(3) # {}
  /\ result.value[1].cpuPercent = JNull
  /\ result.value[2].cpuPercent = JNum(5)

Signals == {"SIGTERM", "SIGKILL"}

\* process.kill(pid, signal) with what it did: returned, or threw e
KillCall(pid, signal, reply) == Call("process.kill", <<ToString(pid), signal>>, reply)

KillOk == Exited(0, <<>>, <<>>)

\* killProcess returns nothing
Void == Returned(<<>>)

\* variant: the error of process.kill is swallowed
unixKillProcess_swallow(pid, signal, killReply) ==
  [calls |-> <<KillCall(pid, signal, killReply)>>, result |-> Void]

\* UnixAdapter.killProcess: process.kill(pid, signal);
unixKillProcess(pid, signal, killReply) ==
  [calls |-> <<KillCall(pid, signal, killReply)>>,
   result |-> IF killReply.threw THEN Threw(killReply.err) ELSE Void]

\* variant: taskkill is always forced
taskkillArgs_alwaysForce(pid, signal) == <<"/PID", ToString(pid), "/F">>

\* const force = signal === "SIGKILL" ? "/F" : ""; const args = ["/PID", String(pid)];
\* if (force) args.push(force);
taskkillArgs(pid, signal) ==
  <<"/PID", ToString(pid)>> \o (IF signal = "SIGKILL" THEN <<"/F">> ELSE <<>>)

\* WindowsAdapter.killProcess: process.kill, and taskkill in the catch block.
\* An error thrown by Bun.spawnSync inside the catch block is not caught.
windowsKillProcess(pid, signal, killReply, taskReply) ==
  IF ~killReply.threw
  THEN [calls |-> <<KillCall(pid, signal, killReply)>>, result |-> Void]
  ELSE [calls |-> <<KillCall(pid, signal, killReply),
                    Call("taskkill", taskkillArgs(pid, signal), taskReply)>>,
        result |-> IF taskReply.threw THEN Threw(taskReply.err)
                   ELSE IF taskReply.exitCode # 0 THEN Threw(killReply.err)
                   ELSE Void]

\* process.kill returns, or throws permission denied, no such process, or another error
KillReplies == {KillOk, SpawnThrew(EPERM), SpawnThrew(ESRCH), SpawnThrew(PlainError)}

\* taskkill exits 0, exits non-zero, or cannot be spawned
TaskkillReplies ==
  {Exited(0, <<>>, <<>>), Exited(1, <<>>, T_someerror), Exited(128, <<>>, T_someerror),
   SpawnThrew(ENOENT), SpawnThrew(EACCES)}

Unix_killProcess ==
  /\ pc = "start"
  /\ \E pid \in Pids, signal \in Signals, killReply \in KillReplies :
       \E r \in {unixKillProcess(pid, signal, killReply)} :
          /\ op' = "unix.killProcess"
          /\ args' = [pid |-> pid, signal |-> signal]
          /\ calls' = r.calls
          /\ result' = r.result
  /\ pc' = "done"
  /\ UNCHANGED errors
  /\ UNCHANGED <<locals, printed>>

Windows_killProcess ==
  /\ pc = "start"
  /\ \E pid \in Pids, signal \in Signals, killReply \in KillReplies :
       \E taskReply \in IF killReply.threw THEN TaskkillReplies ELSE {KillOk} :
         \E r \in {windowsKillProcess(pid, signal, killReply, taskReply)} :
            /\ op' = "windows.killProcess"
            /\ args' = [pid |-> pid, signal |-> signal]
            /\ calls' = r.calls
            /\ result' = r.result
  /\ pc' = "done"
  /\ UNCHANGED errors
  /\ UNCHANGED <<locals, printed>>

NextKill == Unix_killProcess \/ Windows_killProcess

SpecKill == Init /\ [][NextKill]_vars

(***************************************************************************)
(* Properties of killProcess                                               *)
(***************************************************************************)
\* positions of the taskkill invocations of the call
TaskkillAt == {i \in 1..Len(calls) : calls[i].cmd = "taskkill"}

\* the taskkill fallback was tried and failed
TaskkillFailed ==
  \E i \in TaskkillAt : calls[i].reply.threw \/ calls[i].reply.exitCode # 0

\* C8: the Windows killProcess raises an error only when process.kill and the
\* taskkill fallback both failed, and then the error process.kill threw; when
\* process.kill failed and taskkill exited 0 it returns normally.
C8_OriginalErrorSurfaced ==
  (op = "windows.killProcess" /\ pc = "done") =>
    /\ result.kind = "throw" =>
         /\ calls[1].reply.threw
         /\ TaskkillFailed
         /\ result.err = calls[1].reply.err
    /\ (calls[1].reply.threw /\ TaskkillAt # {} /\ ~TaskkillFailed) => result = Returned(<<>>)

\* C9: the Windows killProcess invokes taskkill only after process.kill threw
\* in the same call, at most once, for the pid given, and with /F exactly when
\* the signal is SIGKILL.
C9_TaskkillOnlyAsFallback ==
  (op = "windows.killProcess" /\ pc = "done") =>
    /\ calls[1].cmd = "process.kill"
    /\ Cardinality(TaskkillAt) <= 1
    /\ \A i \in TaskkillAt :
         /\ i = 2
         /\ calls[1].reply.threw
         /\ calls[i].argv[1] = "/PID"
         /\ calls[i].argv[2] = ToString(args.pid)
         /\ ("/F" \in Range(calls[i].argv)) <=> (args.signal = "SIGKILL")
    /\ (calls[1].reply.threw <=> TaskkillAt # {})

C9_Witness ==
  /\ op = "windows.killProcess" /\ pc = "done"
  /\ args.signal = "SIGTERM"
  /\ calls[1].reply = SpawnThrew(EPERM)
  /\ Len(calls) = 2
  /\ calls[2].argv = <<"/PID", ToString(args.pid)>>

\* C10: the Unix killProcess makes exactly one process.kill call, with the pid
\* and the signal it was given, and the call ends as process.kill ended: an
\* error it threw reaches the caller unchanged.
C10_UnixKillPropagates ==
  (op = "unix.killProcess" /\ pc = "done") =>
    /\ Len(calls) = 1
    /\ calls[1].cmd = "process.kill"
    /\ calls[1].argv = <<ToString(args.pid), args.signal>>
    /\ IF calls[1].reply.threw
       THEN result.kind = "throw" /\ result.err = calls[1].reply.err
       ELSE result.kind = "return"

C10_Witness ==
  /\ op = "unix.killProcess" /\ pc = "done"
  /\ args.signal = "SIGKILL"
  /\ calls[1].reply = SpawnThrew(ESRCH)
  /\ result.kind = "throw" /\ result.err = ESRCH

(***************************************************************************)
(* UnixAdapter.getProcessMetadata and getProcessCwd                        *)
(***************************************************************************)
\* field values of the Unix metadata record: null, the number n / 10^d, a string
UNull == [t |-> "null", n |-> 0, d |-> 0, s |-> <<>>]
UNum(n, d) == [t |-> "num", n |-> n, d |-> d, s |-> <<>>]
UStr(s) == [t |-> "str", n |-> 0, d |-> 0, s |-> s]

RECURSIVE Pow10(_)
Pow10(k) == IF k <= 0 THEN 1 ELSE 10 * Pow10(k - 1)

\* the number n / 10^d without trailing zeros in the fraction
RECURSIVE Decimal(_, _)
Decimal(n, d) ==
  IF d > 0 /\ n % 10 = 0 THEN Decimal(n \div 10, d - 1) ELSE UNum(n, d)

\* s.replace(from, to) with one-character strings: the first occurrence only
RECURSIVE ReplaceFirst(_, _, _)
ReplaceFirst(s, from, to) ==
  IF s = <<>> THEN <<>>
  ELSE IF Head(s) = from THEN <<to>> \o Tail(s)
  ELSE <<Head(s)>> \o ReplaceFirst(Tail(s), from, to)

\* parseFloat(s): leading white space, an optional sign, digits, an optional
\* fraction, an optional exponent; UNull stands for NaN
parseFloat(s) ==
  LET b == SkipWs(s, 1)
      signed == b <= Len(s) /\ s[b] \in {"+", "-"}
      i == IF signed THEN b + 1 ELSE b
      n1 == DigitRun(s, i)
      dot == i + n1 <= Len(s) /\ s[i + n1] = "."
      n2 == IF dot THEN DigitRun(s, i + n1 + 1) ELSE 0
      e == IF dot THEN i + n1 + 1 + n2 ELSE i + n1
      hasE == e <= Len(s) /\ s[e] \in {"e", "E"}
      esigned == hasE /\ e + 1 <= Len(s) /\ s[e + 1] \in {"+", "-"}
      x == IF esigned THEN e + 2 ELSE e + 1
      n3 == IF hasE THEN DigitRun(s, x) ELSE 0
      ex == IF n3 = 0 THEN 0
            ELSE IF esigned /\ s[e + 1] = "-" THEN 0 - DigitsValue(SubSeq(s, x, x + n3 - 1))
            ELSE DigitsValue(SubSeq(s, x, x + n3 - 1))
      mant == DigitsValue(SubSeq(s, i, i + n1 - 1) \o SubSeq(s, i + n1 + 1, i + n1 + n2))
      m == IF signed /\ s[b] = "-" THEN 0 - mant ELSE mant
  IN IF n1 = 0 /\ n2 = 0 THEN UNull
     ELSE IF ex >= n2 THEN Decimal(m * Pow10(ex - n2), 0)
     ELSE Decimal(m, n2 - ex)

\* line terminators of a JavaScript regular expression
LineTerms == {"\n", "\r"}

\* position of the last line terminator of s at or before i (0 if none)
RECURSIVE LastTerm(_, _)
LastTerm(s, i) ==
  IF i < 1 \/ s[i] \in LineTerms THEN i ELSE LastTerm(s, i - 1)

\* first position >= i of s that holds a line terminator (Len(s) + 1 if none)
RECURSIVE NextTerm(_, _)
NextTerm(s, i) ==
  IF i > Len(s) \/ s[i] \in LineTerms THEN i ELSE NextTerm(s, i + 1)

\* /\d{4}\s{2,}(.+)$/ matched at position i: four digits, then white space up
\* to position k - 1 (at least two characters, as many as possible), then
\* group 1 from k to the end of s, which holds no line terminator.  Yields k,
\* or 0 when there is no match at i.
yearMatchAt(s, i) ==
  LET w == SkipWs(s, i + 4)
      k == IF w > Len(s) THEN Len(s) ELSE w
  IN IF /\ i + 4 <= Len(s)
        /\ DigitRun(s, i) >= 4
        /\ k >= i + 6
        /\ k > LastTerm(s, Len(s))
     THEN k ELSE 0

\* output.match(/\d{4}\s{2,}(.+)$/)?.[1]?.trim() ?? null: the leftmost match
RECURSIVE yearMatchFrom(_, _)
yearMatchFrom(s, i) ==
  IF i > Len(s) THEN UNull
  ELSE IF yearMatchAt(s, i) # 0 THEN UStr(Trim(Drop(s, yearMatchAt(s, i))))
  ELSE yearMatchFrom(s, i + 1)

yearMatch(s) == yearMatchFrom(s, 1)

\* the month number, two digits, of an English month abbreviation (<<>> for any other word)
monthNumber(name) ==
  CASE name = <<"J", "a", "n">> -> <<"0", "1">>
            [] name = <<"F", "e", "b">> -> <<"0", "2">>
            [] name = <<"M", "a", "r">> -> <<"0", "3">>
            [] name = <<"A", "p", "r">> -> <<"0", "4">>
            [] name = <<"M", "a", "y">> -> <<"0", "5">>
            [] name = <<"J", "u", "n">> -> <<"0", "6">>
            [] name = <<"J", "u", "l">> -> <<"0", "7">>
            [] name = <<"A", "u", "g">> -> <<"0", "8">>
            [] name = <<"S", "e", "p">> -> <<"0", "9">>
            [] name = <<"O", "c", "t">> -> <<"1", "0">>
            [] name = <<"N", "o", "v">> -> <<"1", "1">>
            [] name = <<"D", "e", "c">> -> <<"1", "2">>
            [] OTHER -> <<>>

\* s consists of digits only and is not empty: /^\d+$/.test(s)
AllDigits(s) == s # <<>> /\ DigitRun(s, 1) = Len(s)

\* hh:mm:ss
IsClock(s) ==
  /\ Len(s) = 8
  /\ \A i \in {1, 2, 4, 5, 7, 8} : s[i] \in Digits
  /\ s[3] = ":" /\ s[6] = ":"

\* new Date(dateStr) for the five tokens "Day Mon DD HH:MM:SS YYYY": the date
\* is valid when the second token is an English month name, the third a day
\* number, the fourth a clock time and the fifth a year
dateValid(dateStr) ==
  LET t == SplitWs(dateStr)
  IN /\ Len(t) = 5
     /\ monthNumber(t[2]) # <<>>
     /\ AllDigits(t[3]) /\ Len(t[3]) <= 2
     /\ IsClock(t[4])
     /\ AllDigits(t[5]) /\ Len(t[5]) = 4

\* date.toISOString(), the local time zone being UTC
toISOString(dateStr) ==
  LET t == SplitWs(dateStr)
      dd == IF Len(t[3]) = 1 THEN <<"0">> \o t[3] ELSE t[3]
  IN t[5] \o <<"-">> \o monthNumber(t[2]) \o <<"-">> \o dd \o <<"T">> \o t[4]
     \o <<".", "0", "0", "0", "Z">>

\* parts.slice(3, 8).join(" ")
dateStrOf(parts) == JoinSp(SubSeq(parts, 4, IF Len(parts) < 8 THEN Len(parts) ELSE 8))

\* the startTime of the record
startTimeOf(parts) ==
  IF Len(parts) < 8 THEN UNull
  ELSE IF dateValid(dateStrOf(parts)) THEN UStr(toISOString(dateStrOf(parts)))
  ELSE UStr(dateStrOf(parts))

\* variant: the comma is not turned into a dot
cpuStrOf_noReplace(parts) == Part(parts, 0)

\* (parts[0] ?? "").replace(",", ".")
cpuStrOf(parts) == ReplaceFirst(Part(parts, 0), ",", ".")

\* const rssKb = parseInt(rssStr, 10) || null; memoryBytes: rssKb ? rssKb * 1024 : null
memoryBytesOf(parts) ==
  LET rss == parseInt(Part(parts, 2))
  IN IF rss.nan \/ rss.val = 0 THEN UNull ELSE UNum(rss.val * 1024, 0)

UnixMetadata(cpu, mem, start, path, cwd) ==
  [cpuPercent |-> cpu, memoryBytes |-> mem, startTime |-> start, path |-> path, cwd |-> cwd]

\* the record returned when ps gave nothing to parse
psFailed(cwd) == UnixMetadata(UNull, UNull, UNull, UNull, cwd)

\* the record parsed from the trimmed ps output
psParsed(output, cwd) ==
  LET parts == SplitWs(Trim(output))
  IN UnixMetadata(parseFloat(cpuStrOf(parts)), memoryBytesOf(parts),
                  startTimeOf(parts), yearMatch(output), cwd)

\* output.match(/^n(.+)$/m)?.[1]: the rest of the first line that starts with
\* n and goes on, <<>> when there is none
RECURSIVE cwdMatchFrom(_, _)
cwdMatchFrom(s, i) ==
  IF i > Len(s) THEN <<>>
  ELSE IF s[i] = "n" /\ NextTerm(s, i + 1) > i + 1
  THEN SubSeq(s, i + 1, NextTerm(s, i + 1) - 1)
  ELSE cwdMatchFrom(s, NextTerm(s, i) + 1)

cwdMatch(s) == cwdMatchFrom(s, 1)

cwdLsofCall(pid, reply) ==
  Call("lsof", <<"-a", "-p", ToString(pid), "-d", "cwd", "-Fn">>, reply)

cwdReadlinkCall(pid, reply) ==
  Call("readlink", <<"/proc/" \o ToString(pid) \o "/cwd">>, reply)

\* variant: the exit code of lsof is not looked at
cwdFromLsof_anyExit(reply) == ~reply.threw /\ cwdMatch(reply.stdout) # <<>>

\* the lsof strategy of getProcessCwd found the directory
cwdFromLsof(reply) ==
  ~reply.threw /\ reply.exitCode = 0 /\ cwdMatch(reply.stdout) # <<>>

\* the readlink strategy found it
cwdFromReadlink(reply) ==
  ~reply.threw /\ reply.exitCode = 0 /\ Trim(reply.stdout) # <<>>

\* getProcessCwd: lsof, then readlink of /proc/PID/cwd, then null
getProcessCwd(pid, lsofReply, readlinkReply) ==
  IF cwdFromLsof(lsofReply)
  THEN [cwd |-> UStr(cwdMatch(lsofReply.stdout)), calls |-> <<cwdLsofCall(pid, lsofReply)>>]
  ELSE [cwd |-> IF cwdFromReadlink(readlinkReply)
                THEN UStr(Trim(readlinkReply.stdout)) ELSE UNull,
        calls |-> <<cwdLsofCall(pid, lsofReply), cwdReadlinkCall(pid, readlinkReply)>>]

psCall(pid, reply) ==
  Call("ps", <<"-p", ToString(pid), "-o", "%cpu=,%mem=,rss=,lstart=,args=">>, reply)

\* UnixAdapter.getProcessMetadata
unixGetProcessMetadata(pid, lsofReply, readlinkReply, psReply) ==
  LET c == getProcessCwd(pid, lsofReply, readlinkReply)
  IN [calls |-> c.calls \o <<psCall(pid, psReply)>>,
      result |-> IF psReply.threw \/ psReply.exitCode # 0 \/ Trim(psReply.stdout) = <<>>
                 THEN Returned(psFailed(c.cwd))
                 ELSE Returned(psParsed(Trim(psReply.stdout), c.cwd))]

(***************************************************************************)
(* WindowsAdapter.getProcessMetadata                                       *)
(***************************************************************************)
\* the properties read from a document that is not a record: all undefined
NoMetaItem ==
  [CPU |-> JUndef, Memory |-> JUndef, StartTime |-> JUndef, Path |-> JUndef, Cwd |-> JUndef]

\* const data = JSON.parse(output): the properties data.CPU ... data.Cwd
metaData(out) == IF out.shape = "object" THEN out.items[1] ELSE NoMetaItem

\* the object literal returned after JSON.parse
metaItem(data) ==
  ProcessMetadata(NumberOrNull(data.CPU), NumberOrNull(data.Memory),
                  Nullish(data.StartTime, JNull), Nullish(data.Path, JNull),
                  Nullish(data.Cwd, JNull))

\* variant: an error of the spawn is not caught
metaSpawnThrew_rethrown(proc) == Threw(proc.err)

\* the catch block: the all-absent record
metaSpawnThrew(proc) == Returned(emptyMetadata)

windowsGetProcessMetadata(proc) ==
  IF proc.threw THEN metaSpawnThrew(proc)
  ELSE IF proc.exitCode # 0 THEN Returned(emptyMetadata)
  ELSE IF proc.stdout.text \in {"", "{}", "null"} THEN Returned(emptyMetadata)
  ELSE IF jsonInvalid(proc.stdout) THEN Returned(emptyMetadata)
  ELSE Returned(metaItem(metaData(proc.stdout)))

(***************************************************************************)
(* Replies the metadata queries are run on.  The ps lines are built from   *)
(* known tokens, each with the value it stands for.                        *)
(***************************************************************************)
T_dot == <<".">>
T_comma == <<",">>
T_mem == <<"1", ".", "2">>
T_binNode == <<"/", "u", "s", "r", "/", "b", "i", "n", "/", "n", "o", "d", "e">>
T_nodeServer == <<"/", "u", "s", "r", "/", "b", "i", "n", "/", "n", "o", "d", "e", " ", "s", "e", "r", "v", "e", "r", ".", "j", "s">>
T_home == <<"/", "h", "o", "m", "e", "/", "u">>
T_srv == <<"/", "s", "r", "v">>

\* decimal numbers a.b as digit strings with their value
CpuPairs ==
  {[a |-> <<"0">>, b |-> <<"5">>, val |-> UNum(5, 1)],
   [a |-> <<"1", "2">>, b |-> <<"2", "5">>, val |-> UNum(1225, 2)],
   [a |-> <<"3">>, b |-> <<"5", "0">>, val |-> UNum(35, 1)]}

\* the CPU tokens: a.b and a,b, and a token that is no number
CpuTokens ==
  {[text |-> p.a \o sep \o p.b, a |-> p.a, b |-> p.b, sep |-> sep, val |-> p.val] :
     p \in CpuPairs, sep \in {T_dot, T_comma}}
  \cup {[text |-> T_x, a |-> <<>>, b |-> <<>>, sep |-> <<>>, val |-> UNull]}

\* the RSS tokens with the memoryBytes they stand for
RssTokens ==
  {[text |-> <<"5", "1", "2", "0", "0">>, val |-> UNum(52428800, 0)],
   [text |-> T_0, val |-> UNull],
   [text |-> T_x, val |-> UNull]}

\* the start timestamps as written by ps, with their five tokens joined by
\* single spaces, whether they name a date, and the ISO form of that date
Timestamps ==
  {[text |-> <<"M", "o", "n", " ", "J", "a", "n", " ", " ", "6", " ", "1", "0", ":", "3", "0", ":", "0", "0", " ", "2", "0", "2", "5">>,
    raw |-> <<"M", "o", "n", " ", "J", "a", "n", " ", "6", " ", "1", "0", ":", "3", "0", ":", "0", "0", " ", "2", "0", "2", "5">>,
    valid |-> TRUE,
    iso |-> <<"2", "0", "2", "5", "-", "0", "1", "-", "0", "6", "T", "1", "0", ":", "3", "0", ":", "0", "0", ".", "0", "0", "0", "Z">>],
   [text |-> <<"o", "n", "s", " ", "3", "1", " ", "d", "e", "s", " ", "0", "6", ":", "0", "4", ":", "5", "0", " ", "2", "0", "2", "5">>,
    raw |-> <<"o", "n", "s", " ", "3", "1", " ", "d", "e", "s", " ", "0", "6", ":", "0", "4", ":", "5", "0", " ", "2", "0", "2", "5">>,
    valid |-> FALSE, iso |-> <<>>],
   [text |-> <<"o", "n", "s", " ", "3", "1", " ", "d", "e", "s", " ", "2", "0", "2", "5", " ", "0", "6", ":", "0", "4", ":", "5", "0">>,
    raw |-> <<"o", "n", "s", " ", "3", "1", " ", "d", "e", "s", " ", "2", "0", "2", "5", " ", "0", "6", ":", "0", "4", ":", "5", "0">>,
    valid |-> FALSE, iso |-> <<>>]}

\* "  0.5  1.2  51200 Mon Jan  6 10:30:00 2025     /usr/bin/node server.js"
PsLine(cpu, rss, ts, cmd) ==
  <<" ", " ">> \o cpu \o <<" ", " ">> \o T_mem \o <<" ", " ">> \o rss \o <<" ">> \o ts
  \o <<" ", " ", " ", " ", " ">> \o cmd

\* the ps lines with the tokens they were built from
PsBuilt ==
  {[line |-> PsLine(c.text, r.text, t.text, a), cpu |-> c, rss |-> r, ts |-> t, args |-> a] :
     c \in CpuTokens, r \in RssTokens, t \in Timestamps, a \in {T_binNode, T_nodeServer}}

\* replies of ps: it cannot be spawned, fails, prints nothing, or prints a line
PsReplies ==
  {SpawnThrew(ENOENT), SpawnThrew(PlainError), Exited(1, <<>>, T_someerror),
   Exited(0, <<>>, <<>>), Exited(0, <<" ", "\n">>, <<>>)}
  \cup {Exited(0, b.line \o <<"\n">>, <<>>) : b \in PsBuilt}

\* replies of lsof -a -p PID -d cwd -Fn; the directory printed is /home/u
CwdLsofReplies ==
  {Exited(0, <<"p", "7", "\n", "n">> \o T_home \o <<"\n">>, <<>>),
   Exited(0, <<"p", "7", "\n">>, <<>>),
   Exited(1, <<>>, T_someerror),
   Exited(1, <<"p", "7", "\n", "n">> \o T_home \o <<"\n">>, T_someerror),
   SpawnThrew(ENOENT)}

\* replies of readlink /proc/PID/cwd; the directory printed is /srv
CwdReadlinkReplies ==
  {Exited(0, T_srv \o <<"\n">>, <<>>), Exited(0, <<"\n">>, <<>>),
   Exited(1, <<>>, T_someerror), SpawnThrew(ENOENT)}

\* records of the Get-Process query with the metadata they stand for
MetaBuilt ==
  {[item |-> [CPU |-> JNum(5), Memory |-> JNum(2048),
              StartTime |-> JStr("2025-01-01T12:00:00"), Path |-> JStr("C:\\node.exe"),
              Cwd |-> JStr("C:\\")],
    meta |-> ProcessMetadata(JNum(5), JNum(2048), JStr("2025-01-01T12:00:00"),
                             JStr("C:\\node.exe"), JStr("C:\\"))],
   [item |-> [CPU |-> JNull, Memory |-> JNum(4096), StartTime |-> JNull,
              Path |-> JStr("C:\\sh.exe"), Cwd |-> JUndef],
    meta |-> ProcessMetadata(JNull, JNum(4096), JNull, JStr("C:\\sh.exe"), JNull)]}

MetaItems == {b.item : b \in MetaBuilt}

PsMetaReplies ==
  {SpawnThrew(ENOENT), SpawnThrew(PlainError), Exited(1, PsText(""), T_someerror),
   Exited(1, PsObject([CPU |-> JNum(5), Memory |-> JNum(2048),
                       StartTime |-> JStr("2025-01-01T12:00:00"),
                       Path |-> JStr("C:\\node.exe"), Cwd |-> JStr("C:\\")]), <<>>)}
  \cup {Exited(0, PsText(t), <<>>) : t \in {"", "{}", "null", "invalid"}}
  \cup {Exited(0, PsScalar, <<>>)}
  \cup {Exited(0, PsObject(i), <<>>) : i \in MetaItems}
  \cup {Exited(0, PsArray(is), <<>>) : is \in SeqsOf(MetaItems, 0, MaxItems)}

Unix_getProcessMetadata ==
  /\ pc = "start"
  /\ \E pid \in Pids, lsofReply \in CwdLsofReplies, psReply \in PsReplies :
       \E readlinkReply \in IF cwdFromLsof(lsofReply) THEN {NoReply} ELSE CwdReadlinkReplies :
         \E r \in {unixGetProcessMetadata(pid, lsofReply, readlinkReply, psReply)} :
            /\ op' = "unix.getProcessMetadata"
            /\ args' = [pid |-> pid]
            /\ calls' = r.calls
            /\ result' = r.result
  /\ pc' = "done"
  /\ UNCHANGED errors
  /\ UNCHANGED <<locals, printed>>

Windows_getProcessMetadata ==
  /\ pc = "start"
  /\ \E pid \in Pids, proc \in PsMetaReplies :
       /\ op' = "windows.getProcessMetadata"
       /\ args' = [pid |-> pid]
       /\ calls' = <<Call("powershell", <<"-NoProfile", "-Command", "Get-Process -Id " \o ToString(pid)>>, proc)>>
       /\ result' = windowsGetProcessMetadata(proc)
  /\ pc' = "done"
  /\ UNCHANGED errors
  /\ UNCHANGED <<locals, printed>>

NextMetadata == Unix_getProcessMetadata \/ Windows_getProcessMetadata

SpecMetadata == Init /\ [][NextMetadata]_vars

(***************************************************************************)
(* Properties of getProcessMetadata                                        *)
(***************************************************************************)
IsUnixMeta == op = "unix.getProcessMetadata" /\ pc = "done"
IsWindowsMeta == op = "windows.getProcessMetadata" /\ pc = "done"

\* the reply the metadata query (ps, or the PowerShell script) got
QueryReply == calls[Len(calls)].reply

\* the query failed: the spawn threw, the exit code is not zero, or the
\* output is empty
QueryFailed ==
  \/ QueryReply.threw
  \/ QueryReply.exitCode # 0
  \/ IsUnixMeta /\ QueryReply.stdout \in {<<>>, <<" ", "\n">>}
  \/ IsWindowsMeta /\ QueryReply.stdout = PsText("")

\* the directory the working-directory lookup of the Unix adapter found, from
\* the replies it got: /home/u from lsof, else /srv from readlink, else none
CwdExpected ==
  IF calls[1].reply = Exited(0, <<"p", "7", "\n", "n">> \o T_home \o <<"\n">>, <<>>)
  THEN UStr(T_home)
  ELSE IF calls[2].reply = Exited(0, T_srv \o <<"\n">>, <<>>) THEN UStr(T_srv)
  ELSE UNull

Absent(v) == v.t = "null"

PsLinePrinted ==
  /\ IsUnixMeta
  /\ ~QueryReply.threw /\ QueryReply.exitCode = 0
  /\ \E b \in PsBuilt : b.line \o <<"\n">> = QueryReply.stdout

\* what that line was built from
PsLineBuilt == CHOOSE b \in PsBuilt : b.line \o <<"\n">> = QueryReply.stdout

\* the record getProcessMetadata returns for the ps line of b and the working
\* directory of this call
RecordFor(b) == psParsed(Trim(b.line \o <<"\n">>), result.value.cwd)

\* C12: when the ps line has an unparsable CPU token, RSS token or start
\* timestamp, every field of the returned record other than the corresponding
\* one (cpuPercent, memoryBytes, startTime) equals the field returned for the
\* same line with that token parsable.
C12_FieldsIndependent ==
  PsLinePrinted =>
    \A b \in PsBuilt :
      /\ ([b EXCEPT !.line = <<>>, !.cpu = PsLineBuilt.cpu] = [PsLineBuilt EXCEPT !.line = <<>>]
          /\ Absent(PsLineBuilt.cpu.val) /\ ~Absent(b.cpu.val)) =>
           [result.value EXCEPT !.cpuPercent = UNull] = [RecordFor(b) EXCEPT !.cpuPercent = UNull]
      /\ ([b EXCEPT !.line = <<>>, !.rss = PsLineBuilt.rss] = [PsLineBuilt EXCEPT !.line = <<>>]
          /\ Absent(PsLineBuilt.rss.val) /\ ~Absent(b.rss.val)) =>
           [result.value EXCEPT !.memoryBytes = UNull] = [RecordFor(b) EXCEPT !.memoryBytes = UNull]
      /\ ([b EXCEPT !.line = <<>>, !.ts = PsLineBuilt.ts] = [PsLineBuilt EXCEPT !.line = <<>>]
          /\ ~PsLineBuilt.ts.valid /\ b.ts.valid) =>
           [result.value EXCEPT !.startTime = UNull] = [RecordFor(b) EXCEPT !.startTime = UNull]

\* C13: for a ps line whose start timestamp names no date, startTime is the
\* text of the five timestamp tokens, and cpuPercent, memoryBytes and path are
\* the values of their tokens; for one that names a date, startTime is the
\* ISO-8601 form of that date.
C13_RawStartTimeKept ==
  PsLinePrinted =>
    IF PsLineBuilt.ts.valid
    THEN result.value.startTime = UStr(PsLineBuilt.ts.iso)
    ELSE /\ result.value.startTime = UStr(PsLineBuilt.ts.raw)
         /\ result.value.cpuPercent = PsLineBuilt.cpu.val
         /\ result.value.memoryBytes = PsLineBuilt.rss.val
         /\ result.value.path = UStr(PsLineBuilt.args)

\* C14: a CPU token a,b and the token a.b of the same digits both give the
\* cpuPercent a + b / 10^|b|; "0,5" gives 0.5.
C14_CommaDecimalCpu ==
  (PsLinePrinted /\ PsLineBuilt.cpu.sep \in {T_dot, T_comma}) =>
    result.value.cpuPercent = PsLineBuilt.cpu.val

C14_Witness ==
  /\ PsLinePrinted
  /\ PsLineBuilt.cpu.text = <<"0", ",", "5">>
  /\ result.value.cpuPercent = UNum(5, 1)

(***************************************************************************)
(* The command line: parsePorts and getAdapter                             *)
(***************************************************************************)
MaxSegments == 2    \* comma-separated segments of a port specification

\* s.split(c) for a one-character separator
RECURSIVE SplitOnFrom(_, _, _, _)
SplitOnFrom(s, c, i, acc) ==
  LET e == CHOOSE k \in i..(Len(s) + 1) :
             /\ k = Len(s) + 1 \/ s[k] = c
             /\ \A j \in i..(k - 1) : s[j] # c
  IN IF e > Len(s) THEN Append(acc, SubSeq(s, i, e - 1))
     ELSE SplitOnFrom(s, c, e + 1, Append(acc, SubSeq(s, i, e - 1)))

SplitOn(s, c) == SplitOnFrom(s, c, 1, <<>>)

\* .map((s) => s.trim())
TrimAll(ss) == [i \in 1..Len(ss) |-> Trim(ss[i])]

\* .filter(Boolean): the non-empty strings
RECURSIVE NonEmpty(_)
NonEmpty(ss) ==
  IF ss = <<>> THEN <<>>
  ELSE IF Head(ss) = <<>> THEN NonEmpty(Tail(ss))
  ELSE <<Head(ss)>> \o NonEmpty(Tail(ss))

\* String(n) for n >= 0
RECURSIVE NumberText(_)
NumberText(n) ==
  IF n < 10 THEN <<CHOOSE c \in Digits : DigitVal(c) = n>>
  ELSE NumberText(n \div 10) \o NumberText(n % 10)

\* console.error(msg + arg); process.exit(1)
PortsExit(msg, arg) == [exit |-> TRUE, ports |-> <<>>, msg |-> msg, arg |-> arg]
PortsOk(ports) == [exit |-> FALSE, ports |-> ports, msg |-> "", arg |-> <<>>]

\* for (let p = start; p <= end; p++) ports.push(p);
PortRange(start, end) == [i \in 1..(end - start + 1) |-> start + i - 1]

\* the body of the loop for one segment: the ports it pushes, or the exit
portsOfSegment(segment) ==
  IF Includes(segment, <<"-">>)
  THEN LET rangeParts == TrimAll(SplitOn(segment, "-"))
           startStr == Part(rangeParts, 0)
           endStr == Part(rangeParts, 1)
           start == DigitsValue(startStr)
           end == DigitsValue(endStr)
       IN IF ~AllDigits(startStr) \/ ~AllDigits(endStr)
          THEN PortsExit("Invalid port range: ", segment)
          ELSE IF start > end
          THEN PortsExit("Invalid port range (start > end): ", segment)
          ELSE IF start < 1 \/ end > 65535
          THEN PortsExit("Port out of range (1-65535): ", segment)
          ELSE PortsOk(PortRange(start, end))
  ELSE IF ~AllDigits(segment) THEN PortsExit("Invalid port number: ", segment)
  ELSE IF DigitsValue(segment) < 1 \/ DigitsValue(segment) > 65535
  THEN PortsExit("Port out of range (1-65535): ", NumberText(DigitsValue(segment)))
  ELSE PortsOk(<<DigitsValue(segment)>>)

\* for (const segment of segments) { ... }: stops at the first exit
RECURSIVE portsOfSegments(_, _)
portsOfSegments(segments, ports) ==
  IF segments = <<>> THEN PortsOk(ports)
  ELSE LET r == portsOfSegment(Head(segments))
       IN IF r.exit THEN r ELSE portsOfSegments(Tail(segments), ports \o r.ports)

\* insertion of x into the ascending sequence s
RECURSIVE InsertSorted(_, _)
InsertSorted(x, s) ==
  IF s = <<>> THEN <<x>>
  ELSE IF x <= Head(s) THEN <<x>> \o s
  ELSE <<Head(s)>> \o InsertSorted(x, Tail(s))

RECURSIVE SortNumbers(_)
SortNumbers(s) == IF s = <<>> THEN <<>> ELSE InsertSorted(Head(s), SortNumbers(Tail(s)))

\* [...new Set(ports)]: the first occurrence of every port, in order
RECURSIVE Distinct(_, _)
Distinct(s, seen) ==
  IF s = <<>> THEN <<>>
  ELSE IF Head(s) \in seen THEN Distinct(Tail(s), seen)
  ELSE <<Head(s)>> \o Distinct(Tail(s), seen \cup {Head(s)})

\* variant: the duplicates are removed but the ports are not sorted
sortedUnique_unsorted(ports) == Distinct(ports, {})

\* [...new Set(ports)].sort((a, b) => a - b)
sortedUnique(ports) == SortNumbers(Distinct(ports, {}))

\* parsePorts(input): how the call ends and what it writes
parsePorts(input) ==
  LET r == portsOfSegments(NonEmpty(TrimAll(SplitOn(input, ","))), <<>>)
  IN IF r.exit THEN [result |-> Exit(1), errors |-> <<[msg |-> r.msg, arg |-> r.arg]>>]
     ELSE [result |-> Returned(sortedUnique(r.ports)), errors |-> <<>>]

\* variant: the Windows adapter for every identifier other than the two Unix ones tested
getAdapter_unixList(platform) ==
  IF platform \in {"darwin", "linux"} THEN "UnixAdapter" ELSE "WindowsAdapter"

\* getAdapter(), platform being process.platform
getAdapter(platform) ==
  IF platform = "win32" THEN "WindowsAdapter" ELSE "UnixAdapter"

\* the segments port specifications are written from, with the ports each
\* names when it is a valid port or range
SegBuilt ==
  {[text |-> <<"8", "0">>, valid |-> TRUE, ports |-> {80}],
   [text |-> <<" ", "4", "4", "3", " ">>, valid |-> TRUE, ports |-> {443}],
   [text |-> <<"1">>, valid |-> TRUE, ports |-> {1}],
   [text |-> <<"6", "5", "5", "3", "5">>, valid |-> TRUE, ports |-> {65535}],
   [text |-> <<"8", "0", "-", "8", "2">>, valid |-> TRUE, ports |-> 80..82],
   [text |-> <<"8", "1", " ", "-", " ", "8", "3">>, valid |-> TRUE, ports |-> 81..83],
   [text |-> <<"6", "5", "5", "3", "4", "-", "6", "5", "5", "3", "5">>, valid |-> TRUE, ports |-> 65534..65535],
   [text |-> <<>>, valid |-> TRUE, ports |-> {}],
   [text |-> <<" ">>, valid |-> TRUE, ports |-> {}],
   [text |-> <<"0">>, valid |-> FALSE, ports |-> {}],
   [text |-> <<"6", "5", "5", "3", "6">>, valid |-> FALSE, ports |-> {}],
   [text |-> <<"8", ".", "5">>, valid |-> FALSE, ports |-> {}],
   [text |-> <<"-", "8", "0">>, valid |-> FALSE, ports |-> {}],
   [text |-> <<"8", "2", "-", "8", "0">>, valid |-> FALSE, ports |-> {}],
   [text |-> <<"0", "-", "2">>, valid |-> FALSE, ports |-> {}],
   [text |-> <<"6", "5", "5", "3", "5", "-", "6", "5", "5", "3", "6">>, valid |-> FALSE, ports |-> {}],
   [text |-> <<"8", "0", "-">>, valid |-> FALSE, ports |-> {}],
   [text |-> <<"8", "0", "-", "8", "2", "-", "9", "0">>, valid |-> FALSE, ports |-> {}],
   [text |-> <<"x", "-", "5">>, valid |-> FALSE, ports |-> {}]}

\* segs[1] , segs[2] , ...
RECURSIVE JoinSegments(_)
JoinSegments(segs) ==
  IF Len(segs) = 1 THEN segs[1]
  ELSE segs[1] \o <<",">> \o JoinSegments(Tail(segs))

\* values of process.platform and process.arch
Platforms == {"win32", "darwin", "linux", "freebsd", "openbsd", "sunos", "aix", "android", "cygwin"}
Archs == {"x64", "arm64"}

\* args.segments records the segments the input was written from
ParsePorts ==
  /\ pc = "start"
  /\ \E segs \in SeqsOf({b.text : b \in SegBuilt}, 1, MaxSegments) :
       \E r \in {parsePorts(JoinSegments(segs))} :
          /\ op' = "parsePorts"
          /\ args' = [input |-> JoinSegments(segs), segments |-> segs]
          /\ result' = r.result
          /\ errors' = r.errors
  /\ pc' = "done"
  /\ UNCHANGED calls
  /\ UNCHANGED <<locals, printed>>

GetAdapter ==
  /\ pc = "start"
  /\ \E platform \in Platforms, arch \in Archs :
       /\ op' = "getAdapter"
       /\ args' = [platform |-> platform, arch |-> arch]
       /\ result' = Returned(getAdapter(platform))
  /\ pc' = "done"
  /\ UNCHANGED <<calls, errors>>
  /\ UNCHANGED <<locals, printed>>

NextCli == ParsePorts \/ GetAdapter

SpecCli == Init /\ [][NextCli]_vars

(***************************************************************************)
(* Properties of getAdapter and parsePorts                                 *)
(***************************************************************************)
\* C17: getAdapter returns the Windows adapter exactly when the platform
\* identifier is win32 and the Unix adapter for every other identifier,
\* whatever the rest of the environment is.
C17_AdapterByPlatform ==
  (op = "getAdapter" /\ pc = "done") =>
    /\ result.kind = "return"
    /\ result.value = "WindowsAdapter" <=> args.platform = "win32"
    /\ result.value = "UnixAdapter" <=> args.platform # "win32"

C17_Witness ==
  /\ op = "getAdapter" /\ pc = "done"
  /\ args.platform = "freebsd"
  /\ result = Returned("UnixAdapter")

\* what the k-th segment of the input was built from
SegmentBuilt(k) == CHOOSE b \in SegBuilt : b.text = args.segments[k]

\* every segment is empty or a valid port or a valid range
AllSegmentsValid == \A k \in 1..Len(args.segments) : SegmentBuilt(k).valid

\* the ports the segments name
PortsNamed == UNION {SegmentBuilt(k).ports : k \in 1..Len(args.segments)}

Invocations(cmd) == Cardinality({k \in 1..Len(calls) : calls[k].cmd = cmd})

\* the strategy order as it shows in the call record of a Unix discovery
StrategyOrder ==
  (op = "unix.getListeningProcesses") =>
    /\ calls[1].cmd = "lsof"
    /\ Invocations("lsof") = 1
    /\ Invocations("ss") <= 1
    /\ \A k \in 1..Len(calls) : calls[k].cmd = "ss" =>
         k = 2 /\ ToolUnavailable(calls[1].reply)
    /\ pc = "trySs" => Len(calls) = 1 /\ ToolUnavailable(calls[1].reply)
    /\ ~ToolUnavailable(calls[1].reply) =>
         /\ pc = "done"
         /\ Len(calls) = 1
         /\ result.kind \in {"return", "throw"}
    /\ (calls[1].reply.threw /\ calls[1].reply.err # ENOENT) =>
         result = Threw(calls[1].reply.err)
    /\ (Len(calls) >= 2 /\ ~ToolUnavailable(calls[2].reply)) =>
         result.kind \in {"return", "throw"}

\* a step of a Unix discovery only adds invocations after those made
NoRetry ==
  (op' = "unix.getListeningProcesses") =>
    /\ Len(calls') >= Len(calls)
    /\ SubSeq(calls', 1, Len(calls)) = calls

\* C25: within one Unix getListeningProcesses call lsof is invoked exactly
\* once and first, ss at most once and only after lsof reported unavailable,
\* the call stops at the first strategy whose outcome is not "unavailable",
\* nothing is retried, and an error thrown by the lsof spawn that is not
\* ENOENT is rethrown to the caller without an ss invocation.
C25_StrategyOrder == []StrategyOrder /\ [][NoRetry]_vars

C25_Witness ==
  /\ op = "unix.getListeningProcesses" /\ pc = "done"
  /\ Len(calls) = 1
  /\ calls[1].reply = SpawnThrew(EACCES)
  /\ result = Threw(EACCES)

(***************************************************************************)
(* Properties of the path and the working directory of the Unix metadata   *)
(***************************************************************************)
\* C26: for every ps line of the form cpu, mem, rss, five timestamp tokens,
\* spaces, command line, path is the command line and nothing else: no text
\* of the numeric or timestamp fields is part of it.
C26_PathIsCommandLine ==
  PsLinePrinted => result.value.path = UStr(PsLineBuilt.args)

\* the lsof cwd query yielded the directory: exit code 0 and an 'n' line
CwdLsofYielded ==
  calls[1].reply = Exited(0, <<"p", "7", "\n", "n">> \o T_home \o <<"\n">>, <<>>)

\* C27: in the Unix getProcessMetadata the lsof cwd query runs first;
\* readlink of /proc/PID/cwd is invoked, once and right after it, exactly
\* when lsof exited non-zero, threw, or printed no 'n' line; the ps query
\* comes last; cwd is absent only when both lookups yield nothing; and the
\* cwd obtained is in the returned record whatever the ps query does.
C27_CwdChain ==
  IsUnixMeta =>
    /\ calls[1].cmd = "lsof"
    /\ calls[1].argv = <<"-a", "-p", ToString(args.pid), "-d", "cwd", "-Fn">>
    /\ IF CwdLsofYielded
       THEN Len(calls) = 2
       ELSE /\ Len(calls) = 3
            /\ calls[2].cmd = "readlink"
            /\ calls[2].argv = <<"/proc/" \o ToString(args.pid) \o "/cwd">>
    /\ calls[Len(calls)].cmd = "ps"
    /\ result.kind = "return"
    /\ result.value.cwd = CwdExpected
    /\ Absent(result.value.cwd) <=>
         (~CwdLsofYielded /\ calls[2].reply # Exited(0, T_srv \o <<"\n">>, <<>>))

C27_Witness ==
  /\ IsUnixMeta
  /\ calls[1].reply = Exited(0, <<"p", "7", "\n">>, <<>>)
  /\ calls[2].reply = Exited(0, T_srv \o <<"\n">>, <<>>)
  /\ calls[3].reply = SpawnThrew(PlainError)
  /\ result.value.cwd = UStr(T_srv)

(***************************************************************************)
(* The command-line program: parseArgs, toJsonOutput, main, handleKillMode *)
(***************************************************************************)
MaxProcs == 2   \* entries of the list the port discovery hands to main

\* a value thrown inside main: its class (instanceof), name, code, message
JsError(class, name, code, message) ==
  [class |-> class, name |-> name, code |-> code, message |-> message]

NoJsError == JsError("", "", "", <<>>)

\* thrown by a prompt on Ctrl+C
ExitPromptError ==
  JsError("ExitPromptError", "ExitPromptError", "",
          <<"U", "s", "e", "r", " ", "f", "o", "r", "c", "e", " ", "c", "l", "o", "s", "e", "d">>)

\* thrown by a prompt whose AbortSignal fired (the q key)
AbortPromptError ==
  JsError("AbortPromptError", "AbortPromptError", "",
          <<"P", "r", "o", "m", "p", "t", " ", "w", "a", "s", " ", "a", "b", "o", "r", "t", "e", "d">>)

\* the AbortError of the runtime
AbortError ==
  JsError("Error", "AbortError", "ABORT_ERR", <<"c", "a", "n", "c", "e", "l", "l", "e", "d">>)

\* errors of process.kill and any other error
KillEPERM == JsError("Error", "Error", "EPERM", <<"k", "i", "l", "l", " ", "E", "P", "E", "R", "M">>)
KillESRCH == JsError("Error", "Error", "ESRCH", <<"k", "i", "l", "l", " ", "E", "S", "R", "C", "H">>)
OtherError == JsError("Error", "Error", "", <<"b", "o", "o", "m">>)

UpperCase == <<"A", "B", "C", "D", "E", "F", "G", "H", "I", "J", "K", "L", "M",
               "N", "O", "P", "Q", "R", "S", "T", "U", "V", "W", "X", "Y", "Z">>
LowerCase == <<"a", "b", "c", "d", "e", "f", "g", "h", "i", "j", "k", "l", "m",
               "n", "o", "p", "q", "r", "s", "t", "u", "v", "w", "x", "y", "z">>

\* s.toLowerCase()
toLowerCase(s) ==
  [i \in 1..Len(s) |->
     IF \E k \in 1..Len(UpperCase) : UpperCase[k] = s[i]
     THEN LowerCase[CHOOSE k \in 1..Len(UpperCase) : UpperCase[k] = s[i]]
     ELSE s[i]]

\* variant: only the prompt library's Ctrl+C error counts as an abort
isAbortError_exitPromptOnly(err) == err.class = "ExitPromptError"

\* err instanceof ExitPromptError || err.name === "AbortError" ||
\* err.code === "ABORT_ERR" || err.message.toLowerCase().includes("abort")
isAbortError(err) ==
  \/ err.class = "ExitPromptError"
  \/ err.name = "AbortError"
  \/ err.code = "ABORT_ERR"
  \/ Includes(toLowerCase(err.message), <<"a", "b", "o", "r", "t">>)

\* how an awaited prompt or an adapter call ends: with a value, with a thrown
\* error, or with the process exit the adapter makes
Resolved(v) == [kind |-> "resolved", value |-> v, err |-> NoJsError]
Rejected(e) == [kind |-> "rejected", value |-> <<>>, err |-> e]
ProcessExit(code) == [kind |-> "exit", value |-> code, err |-> NoJsError]

\* a prompt shown or an adapter method called by main, with how it ended
MainCall(cmd, pid, arg, reply) == [cmd |-> cmd, pid |-> pid, arg |-> arg, reply |-> reply]

\* cli.input[0] ?? null
NoPorts == [isNull |-> TRUE, text |-> <<>>]
PortsArg(text) == [isNull |-> FALSE, text |-> text]

\* parseArgs(argv): the positional argument and the four flags
parseArgs(ports, cli) ==
  [ports |-> ports, kill |-> cli.kill \/ cli.murder, force |-> cli.force \/ cli.murder,
   murder |-> cli.murder, json |-> cli.json]

\* a line written to the console: the message with the values put into it
Line(msg) ==
  [msg |-> msg, pid |-> 0, command |-> <<>>, port |-> 0, signal |-> "", killed |-> 0,
   failed |-> 0, items |-> <<>>, text |-> <<>>]

\* toJsonOutput(p) with the metadata the adapter gave for p.pid
toJsonOutput(p, meta) ==
  [pid |-> p.pid, name |-> p.command, port |-> p.port, protocol |-> p.protocol,
   user |-> p.user, cpuPercent |-> meta.cpuPercent, memoryBytes |-> meta.memoryBytes,
   startTime |-> meta.startTime, path |-> meta.path, cwd |-> meta.cwd]

\* flags.ports ? parsePorts(flags.ports) : null
NoFilter == [isNull |-> TRUE, ports |-> <<>>]
Filter(ports) == [isNull |-> FALSE, ports |-> ports]

\* filterPorts && filterPorts.length > 0
filterApplies(filterPorts) == ~filterPorts.isNull /\ Len(filterPorts.ports) > 0

\* processes.filter((p) => portSet.has(p.port))
filterByPorts(processes, filterPorts) ==
  IF filterApplies(filterPorts)
  THEN SelectSeq(processes, LAMBDA p : p.port \in Range(filterPorts.ports))
  ELSE processes

\* p put behind the entries of the ascending list s whose port is not larger
RECURSIVE InsertByPort(_, _)
InsertByPort(p, s) ==
  IF s = <<>> THEN <<p>>
  ELSE IF s[Len(s)].port <= p.port THEN Append(s, p)
  ELSE Append(InsertByPort(p, SubSeq(s, 1, Len(s) - 1)), s[Len(s)])

\* processes.sort((a, b) => a.port - b.port): ascending by port, entries of
\* equal port in their former order
RECURSIVE sortByPort(_)
sortByPort(s) ==
  IF s = <<>> THEN <<>>
  ELSE InsertByPort(s[Len(s)], sortByPort(SubSeq(s, 1, Len(s) - 1)))

\* processes.find((p) => p.pid === selectedPid)!
findSelected(processes, selectedPid) ==
  processes[CHOOSE i \in 1..Len(processes) :
              /\ processes[i].pid = selectedPid
              /\ \A j \in 1..(i - 1) : processes[j].pid # selectedPid]

NoProcess == ProcessInfo(<<>>, 0, <<>>, 0)

\* main().catch(...): what the program does with an error main did not catch
uncaught(err) ==
  IF err.class = "ExitPromptError"
  THEN [printed |-> <<Line("\nCancelled")>>, errors |-> <<>>, result |-> Exit(0)]
  ELSE [printed |-> <<>>,
        errors |-> <<[Line("uncaught") EXCEPT !.text = err.message]>>,
        result |-> Exit(1)]

\* the catch block of handleKillMode's confirmation
confirmCatch(err) ==
  IF isAbortError(err)
  THEN [printed |-> <<Line("\nCancelled")>>, errors |-> <<>>, result |-> Exit(0)]
  ELSE uncaught(err)

\* the catch block of main's interactive mode
interactiveCatch(err, flags) ==
  IF isAbortError(err)
  THEN [printed |-> <<Line("\nCancelled")>>, errors |-> <<>>, result |-> Exit(0)]
  ELSE [printed |-> <<>>,
        errors |->
          <<CASE err.code = "EPERM" ->
                   [Line("\nPermission denied. Try: sudo offmyport") EXCEPT !.text = flags.ports.text]
              [] err.code = "ESRCH" -> Line("\nProcess no longer exists")
              [] OTHER -> [Line("\nFailed to kill process") EXCEPT !.text = err.message]>>,
        result |-> Exit(1)]

\* the line handleKillMode writes for a kill that went through
killedLine(p, murder) ==
  IF murder THEN [Line("ELIMINATED") EXCEPT !.command = p.command]
  ELSE [Line("Killed PID") EXCEPT !.pid = p.pid, !.command = p.command, !.port = p.port]

\* the line it writes for a kill that threw
failedLine(p, err, portArg) ==
  CASE err.code = "EPERM" ->
         [Line("Permission denied for PID") EXCEPT !.pid = p.pid, !.text = portArg.text]
    [] err.code = "ESRCH" -> [Line("no longer exists") EXCEPT !.pid = p.pid]
    [] OTHER -> [Line("Failed to kill PID") EXCEPT !.pid = p.pid, !.text = err.message]

\* variant: kill mode is looked at before --json
modeOf_killFirst(flags, processes) ==
  IF flags.kill /\ processes # <<>> THEN "kill.begin"
  ELSE IF flags.json THEN "main.json"
  ELSE IF processes = <<>> THEN "main.empty"
  ELSE "select.process"

\* the branch main takes once the list is filtered and sorted: --json, then
\* the empty list, then --kill, then the interactive mode
modeOf(flags, processes) ==
  IF flags.json THEN "main.json"
  ELSE IF processes = <<>> THEN "main.empty"
  ELSE IF flags.kill THEN "kill.begin"
  ELSE "select.process"

\* variant: kill mode always ends with exit code 0
killModeResult_alwaysZero(failed) == Void

\* if (failed > 0) process.exit(1); otherwise handleKillMode and main return
killModeResult(failed) == IF failed > 0 THEN Exit(1) ELSE Void

\* the port arguments of the model with the ports each names: no argument,
\* 80, 80,443, a lone comma (accepted, names no port), 0 (rejected)
PortArgBuilt ==
  {[arg |-> NoPorts, valid |-> TRUE, ports |-> {}],
   [arg |-> PortsArg(<<"8", "0">>), valid |-> TRUE, ports |-> {80}],
   [arg |-> PortsArg(<<"8", "0", ",", "4", "4", "3">>), valid |-> TRUE, ports |-> {80, 443}],
   [arg |-> PortsArg(<<",">>), valid |-> TRUE, ports |-> {}],
   [arg |-> PortsArg(<<"0">>), valid |-> FALSE, ports |-> {}]}

CliFlags == [kill : BOOLEAN, force : BOOLEAN, murder : BOOLEAN, json : BOOLEAN]

\* the listeners of the model: process 1 listens on two ports
MainProcs ==
  {ProcessInfo(T_node, 1, T_u, 80), ProcessInfo(T_node, 1, T_u, 443),
   ProcessInfo(T_sh, 2, T_u, 443), ProcessInfo(T_sh, 3, T_u, 8080)}

\* the lists a port discovery returns: no (pid, port) pair twice, any order
DiscoveredLists ==
  {l \in SeqsOf(MainProcs, 0, MaxProcs) : \A i, j \in 1..Len(l) : i # j => l[i] # l[j]}

\* getListeningProcesses returns a list, exits the process, or throws
DiscoveryOutcomes ==
  {Resolved(l) : l \in DiscoveredLists} \cup {ProcessExit(1), Rejected(OtherError)}

\* getProcessMetadata returns a record without or with values
MainMetas ==
  {psFailed(UNull),
   UnixMetadata(UNum(5, 1), UNum(52428800, 0), UStr(<<"2", "0", "2", "5">>),
                UStr(T_binNode), UStr(T_home))}

PromptErrors == {ExitPromptError, AbortPromptError, AbortError, OtherError}
ConfirmOutcomes == {Resolved(TRUE), Resolved(FALSE)} \cup {Rejected(e) : e \in PromptErrors}
KillOutcomes == {Resolved(<<>>), Rejected(KillEPERM), Rejected(KillESRCH), Rejected(OtherError)}

\* const flags = parseArgs(Bun.argv);
Main_parseArgs ==
  /\ pc = "start"
  /\ \E b \in PortArgBuilt, cli \in CliFlags :
       /\ args' = [ports |-> b.arg, cli |-> cli]
       /\ locals' = [flags |-> parseArgs(b.arg, cli), filterPorts |-> NoFilter,
                     processes |-> <<>>, signal |-> "", i |-> 1, killed |-> 0, failed |-> 0,
                     selectedPid |-> 0, selectedProcess |-> NoProcess]
  /\ op' = "main"
  /\ pc' = "main.parsePorts"
  /\ UNCHANGED <<calls, errors, result, printed>>

\* const filterPorts = flags.ports ? parsePorts(flags.ports) : null;
Main_parsePorts ==
  /\ pc = "main.parsePorts"
  /\ IF locals.flags.ports.isNull \/ locals.flags.ports.text = <<>>
     THEN /\ pc' = "main.discover"
          /\ UNCHANGED <<locals, errors, result>>
     ELSE \E r \in {parsePorts(locals.flags.ports.text)} :
            IF r.result.kind = "exit"
            THEN /\ pc' = "done"
                 /\ result' = r.result
                 /\ errors' = errors \o
                      [k \in 1..Len(r.errors) |->
                         [Line(r.errors[k].msg) EXCEPT !.text = r.errors[k].arg]]
                 /\ UNCHANGED locals
            ELSE /\ pc' = "main.discover"
                 /\ locals' = [locals EXCEPT !.filterPorts = Filter(r.result.value)]
                 /\ UNCHANGED <<errors, result>>
  /\ UNCHANGED <<op, args, calls, printed>>

\* let processes = platform.getListeningProcesses(); the filter; the sort;
\* and the choice of the mode
Main_getListeningProcesses ==
  /\ pc = "main.discover"
  /\ \E reply \in DiscoveryOutcomes :
       /\ calls' = Append(calls, MainCall("getListeningProcesses", 0, "", reply))
       /\ CASE reply.kind = "resolved" ->
                 \E ps \in {sortByPort(filterByPorts(reply.value, locals.filterPorts))} :
                    /\ locals' = [locals EXCEPT !.processes = ps]
                    /\ pc' = modeOf(locals.flags, ps)
                    /\ UNCHANGED <<errors, result>>
            [] reply.kind = "exit" ->
                 /\ pc' = "done"
                 /\ result' = Exit(reply.value)
                 /\ UNCHANGED <<locals, errors>>
            [] reply.kind = "rejected" ->
                 /\ pc' = "done"
                 /\ result' = uncaught(reply.err).result
                 /\ errors' = errors \o uncaught(reply.err).errors
                 /\ UNCHANGED locals
  /\ UNCHANGED <<op, args, printed>>

\* const output = processes.map(toJsonOutput);
\* console.log(JSON.stringify(output, null, 2)); process.exit(0);
Main_json ==
  /\ pc = "main.json"
  /\ \E metas \in [1..Len(locals.processes) -> MainMetas] :
       /\ calls' = calls \o
            [k \in 1..Len(locals.processes) |->
               MainCall("getProcessMetadata", locals.processes[k].pid, "", Resolved(metas[k]))]
       /\ printed' = Append(printed,
            [Line("json") EXCEPT !.items =
               [k \in 1..Len(locals.processes) |-> toJsonOutput(locals.processes[k], metas[k])]])
  /\ result' = Exit(0)
  /\ pc' = "done"
  /\ UNCHANGED <<op, args, errors, locals>>

\* if (processes.length === 0) { console.log(...); process.exit(0); }
Main_noProcesses ==
  /\ pc = "main.empty"
  /\ printed' = Append(printed,
       IF filterApplies(locals.filterPorts)
       THEN [Line("No process found listening on") EXCEPT !.items = locals.filterPorts.ports]
       ELSE Line("No listening TCP processes found"))
  /\ result' = Exit(0)
  /\ pc' = "done"
  /\ UNCHANGED <<op, args, calls, errors, locals>>

\* handleKillMode up to the confirmation: the signal and the list shown
HandleKillMode_begin ==
  /\ pc = "kill.begin"
  /\ locals' = [locals EXCEPT !.signal = IF locals.flags.murder THEN "SIGKILL" ELSE "SIGTERM"]
  /\ printed' = Append(printed, [Line("Processes to kill") EXCEPT !.items = locals.processes])
  /\ pc' = IF ~locals.flags.force THEN "kill.confirm" ELSE "kill.loop"
  /\ UNCHANGED <<op, args, calls, errors, result>>

\* const confirmed = await confirm({ ..., default: false }) and its catch block
HandleKillMode_confirm ==
  /\ pc = "kill.confirm"
  /\ \E answer \in ConfirmOutcomes :
       /\ calls' = Append(calls, MainCall("confirm", 0, "", answer))
       /\ CASE answer.kind = "resolved" /\ answer.value ->
                 /\ pc' = "kill.loop"
                 /\ UNCHANGED <<printed, errors, result>>
            [] answer.kind = "resolved" /\ ~answer.value ->
                 /\ pc' = "done"
                 /\ printed' = Append(printed, Line("Cancelled"))
                 /\ result' = Exit(0)
                 /\ UNCHANGED errors
            [] answer.kind = "rejected" ->
                 /\ pc' = "done"
                 /\ printed' = printed \o confirmCatch(answer.err).printed
                 /\ errors' = errors \o confirmCatch(answer.err).errors
                 /\ result' = confirmCatch(answer.err).result
  /\ UNCHANGED <<op, args, locals>>

\* one round of for (const p of processes) { try { platform.killProcess(...) } ... }
HandleKillMode_kill ==
  /\ pc = "kill.loop"
  /\ locals.i <= Len(locals.processes)
  /\ \E reply \in KillOutcomes :
       LET p == locals.processes[locals.i] IN
       /\ calls' = Append(calls, MainCall("killProcess", p.pid, locals.signal, reply))
       /\ IF reply.kind = "resolved"
          THEN /\ printed' = Append(printed, killedLine(p, locals.flags.murder))
               /\ locals' = [locals EXCEPT !.i = @ + 1, !.killed = @ + 1]
               /\ UNCHANGED errors
          ELSE /\ errors' = Append(errors, failedLine(p, reply.err, locals.flags.ports))
               /\ locals' = [locals EXCEPT !.i = @ + 1, !.failed = @ + 1]
               /\ UNCHANGED printed
  /\ UNCHANGED <<op, args, pc, result>>

\* after the loop: the summary and the exit code
HandleKillMode_end ==
  /\ pc = "kill.loop"
  /\ locals.i > Len(locals.processes)
  /\ printed' = Append(printed,
       [Line("\nKilled") EXCEPT !.killed = locals.killed, !.failed = locals.failed])
  /\ result' = killModeResult(locals.failed)
  /\ pc' = "done"
  /\ UNCHANGED <<op, args, calls, errors, locals>>

\* interactive mode: selectedPid = await select({ choices: ... value: p.pid });
\* selectedProcess = processes.find((p) => p.pid === selectedPid)!;
\* the reply records the row the user chose
Main_selectProcess ==
  /\ pc = "select.process"
  /\ \E answer \in {Resolved(row) : row \in 1..Len(locals.processes)}
                   \cup {Rejected(e) : e \in PromptErrors} :
       /\ calls' = Append(calls, MainCall("select.process", 0, "", answer))
       /\ IF answer.kind = "resolved"
          THEN /\ locals' = [locals EXCEPT
                               !.selectedPid = locals.processes[answer.value].pid,
                               !.selectedProcess =
                                  findSelected(locals.processes, locals.processes[answer.value].pid)]
               /\ printed' = Append(printed, [Line("Found") EXCEPT !.killed = Len(locals.processes)])
               /\ pc' = "select.signal"
               /\ UNCHANGED <<errors, result>>
          ELSE /\ printed' = Append(printed, [Line("Found") EXCEPT !.killed = Len(locals.processes)])
                             \o interactiveCatch(answer.err, locals.flags).printed
               /\ errors' = errors \o interactiveCatch(answer.err, locals.flags).errors
               /\ result' = interactiveCatch(answer.err, locals.flags).result
               /\ pc' = "done"
               /\ UNCHANGED locals
  /\ UNCHANGED <<op, args>>

\* const signal = await select({ ... SIGTERM / SIGKILL ... });
Main_selectSignal ==
  /\ pc = "select.signal"
  /\ \E answer \in {Resolved(s) : s \in Signals} \cup {Rejected(e) : e \in PromptErrors} :
       /\ calls' = Append(calls, MainCall("select.signal", locals.selectedPid, "", answer))
       /\ IF answer.kind = "resolved"
          THEN /\ locals' = [locals EXCEPT !.signal = answer.value]
               /\ pc' = "select.kill"
               /\ UNCHANGED <<printed, errors, result>>
          ELSE /\ printed' = printed \o interactiveCatch(answer.err, locals.flags).printed
               /\ errors' = errors \o interactiveCatch(answer.err, locals.flags).errors
               /\ result' = interactiveCatch(answer.err, locals.flags).result
               /\ pc' = "done"
               /\ UNCHANGED locals
  /\ UNCHANGED <<op, args>>

\* platform.killProcess(selectedPid, signal); console.log(`\nSent ...`);
Main_killSelected ==
  /\ pc = "select.kill"
  /\ \E reply \in KillOutcomes :
       /\ calls' = Append(calls, MainCall("killProcess", locals.selectedPid, locals.signal, reply))
       /\ IF reply.kind = "resolved"
          THEN /\ printed' = Append(printed,
                    [Line("\nSent") EXCEPT !.signal = locals.signal, !.pid = locals.selectedPid,
                                           !.command = locals.selectedProcess.command,
                                           !.port = locals.selectedProcess.port])
               /\ result' = Void
               /\ UNCHANGED errors
          ELSE /\ printed' = printed \o interactiveCatch(reply.err, locals.flags).printed
               /\ errors' = errors \o interactiveCatch(reply.err, locals.flags).errors
               /\ result' = interactiveCatch(reply.err, locals.flags).result
  /\ pc' = "done"
  /\ UNCHANGED <<op, args, locals>>

NextMain ==
  \/ Main_parseArgs \/ Main_parsePorts \/ Main_getListeningProcesses
  \/ Main_json \/ Main_noProcesses
  \/ HandleKillMode_begin \/ HandleKillMode_confirm \/ HandleKillMode_kill \/ HandleKillMode_end
  \/ Main_selectProcess \/ Main_selectSignal \/ Main_killSelected

SpecMain == Init /\ [][NextMain]_vars

(***************************************************************************)
(* Properties of the command-line program                                  *)
(***************************************************************************)
MainRun == op = "main"

\* positions of the invocations of cmd in the call record
CallsOf(cmd) == {k \in 1..Len(calls) : calls[k].cmd = cmd}

\* the killProcess invocations made so far, in order
KillCalls == SelectSeq(calls, LAMBDA c : c.cmd = "killProcess")

\* the run entered handleKillMode
KillModeRun == MainRun /\ \E k \in 1..Len(printed) : printed[k].msg = "Processes to kill"

\* handleKillMode wrote its summary line
SummaryWritten == printed # <<>> /\ printed[Len(printed)].msg = "\nKilled"

\* C22: once killing starts, handleKillMode makes exactly one killProcess
\* attempt per listed process, in list order and with the mode's signal; a
\* failed attempt (EPERM, ESRCH, any other error) does not stop the remaining
\* ones; at the end killed + failed is the number of listed processes, and
\* the process exits with code 1 exactly when at least one attempt failed.
C22_KillLoop ==
  KillModeRun =>
    LET n == Len(locals.processes)
        K == KillCalls
        Failures == {k \in 1..Len(K) : K[k].reply.kind = "rejected"}
    IN /\ Len(K) <= n
       /\ \A k \in 1..Len(K) :
            K[k].pid = locals.processes[k].pid /\ K[k].arg = locals.signal
       /\ \A k \in CallsOf("killProcess"), j \in 1..Len(calls) :
            j > k => calls[j].cmd = "killProcess"
       /\ locals.failed = Cardinality(Failures)
       /\ locals.killed + locals.failed = Len(K)
       /\ (pc = "done" /\ K # <<>>) => Len(K) = n /\ SummaryWritten
       /\ (pc = "done" /\ SummaryWritten) =>
            /\ Len(K) = n
            /\ printed[Len(printed)].killed + printed[Len(printed)].failed = n
            /\ printed[Len(printed)].failed = Cardinality(Failures)
            /\ result = Exit(1) <=> Failures # {}
            /\ result = Void <=> Failures = {}

C22_Witness ==
  /\ KillModeRun /\ pc = "done"
  /\ Len(KillCalls) = 2
  /\ KillCalls[1].reply = Rejected(KillESRCH)
  /\ KillCalls[2].reply.kind = "resolved"
  /\ printed[Len(printed)].killed = 1 /\ printed[Len(printed)].failed = 1
  /\ result = Exit(1)

\* the confirmation prompt was answered with yes at position j
ConfirmedAt(j) ==
  calls[j].cmd = "confirm" /\ calls[j].reply.kind = "resolved" /\ calls[j].reply.value

\* it was declined, or aborted (Ctrl+C, an AbortSignal, an AbortError)
DeclinedAt(j) ==
  /\ calls[j].cmd = "confirm"
  /\ \/ calls[j].reply.kind = "resolved" /\ ~calls[j].reply.value
     \/ /\ calls[j].reply.kind = "rejected"
        /\ calls[j].reply.err \in {ExitPromptError, AbortPromptError, AbortError}

DiscoveryReturned ==
  \E k \in CallsOf("getListeningProcesses") : calls[k].reply.kind = "resolved"

\* C24: with --json, also together with --kill, --force or --murder, main
\* shows no prompt and calls killProcess for no process, and once the
\* discovery has returned it prints the JSON array, one element per process
\* of the filtered and sorted list, and exits with code 0.
C24_JsonOnly ==
  (MainRun /\ args.cli.json) =>
    /\ \A k \in 1..Len(calls) :
         calls[k].cmd \in {"getListeningProcesses", "getProcessMetadata"}
    /\ pc \notin {"kill.begin", "kill.confirm", "kill.loop",
                  "select.process", "select.signal", "select.kill"}
    /\ (pc = "done" /\ DiscoveryReturned) =>
         /\ result = Exit(0)
         /\ errors = <<>>
         /\ Len(printed) = 1
         /\ printed[1].msg = "json"
         /\ Len(printed[1].items) = Len(locals.processes)
         /\ \A k \in 1..Len(locals.processes) :
              /\ printed[1].items[k].pid = locals.processes[k].pid
              /\ printed[1].items[k].port = locals.processes[k].port
              /\ printed[1].items[k].name = locals.processes[k].command

C24_Witness ==
  /\ MainRun /\ pc = "done"
  /\ args.cli.json /\ args.cli.kill /\ args.cli.murder /\ ~args.cli.force
  /\ result = Exit(0)
  /\ Len(printed) = 1
  /\ Len(printed[1].items) = 2

\* what the port argument of this run names
PortArgNamed == (CHOOSE b \in PortArgBuilt : b.arg = args.ports).ports

\* the list the discovery of this run returned
Discovered ==
  calls[CHOOSE k \in CallsOf("getListeningProcesses") : TRUE].reply.value

\* C28: when a port argument is supplied, every process that is sent a kill
\* signal in kill mode listens on a port the argument names.
C28_KillOnlyNamedPorts ==
  (KillModeRun /\ ~args.ports.isNull) =>
    \A k \in 1..Len(KillCalls) :
      \E i \in 1..Len(Discovered) :
        /\ Discovered[i].pid = KillCalls[k].pid
        /\ Discovered[i].port \in PortArgNamed

\* C29: in one kill-mode run each distinct PID is sent at most one kill
\* signal.
C29_OneSignalPerPid ==
  KillModeRun =>
    \A j, k \in 1..Len(KillCalls) : j # k => KillCalls[j].pid # KillCalls[k].pid

\* the row the user selected in the interactive list
SelectedRow == calls[CHOOSE k \in CallsOf("select.process") : TRUE].reply.value

\* C30: in interactive mode the command and the port named in the
\* "Sent <signal> to PID" message are those of the row the user selected.
C30_SentNamesSelectedRow ==
  (MainRun /\ printed # <<>> /\ printed[Len(printed)].msg = "\nSent") =>
    /\ printed[Len(printed)].pid = locals.processes[SelectedRow].pid
    /\ printed[Len(printed)].command = locals.processes[SelectedRow].command
    /\ printed[Len(printed)].port = locals.processes[SelectedRow].port


====
